---- MODULE Spec2Model ----
(***************************************************************************)
(* A model of the Jarvis voice assistant: the intent parser and command    *)
(* dispatcher (src/src/services/voiceProcessor.js), the ranking and        *)
(* summarizing functions (src/src/services/aiService.js) and the command   *)
(* loop of the user interface (src/src/App.js).                            *)
(*                                                                         *)
(* A JavaScript string is a sequence of pieces.  An utterance is a         *)
(* sequence of one-character pieces, so that includes(), trim(),           *)
(* toLowerCase() and the regular expressions work on characters as in the  *)
(* source.  A message is the concatenation of its pieces.                  *)
(***************************************************************************)
EXTENDS Integers, Sequences, FiniteSets, TLC

VARIABLES
    \* one invocation of processCommand (voiceProcessor.js)
    command,        \* the utterance passed in
    settings,       \* the settings object passed in
    pc,             \* where the invocation stands
    parsedCommand,  \* the result of parseCommand
    fetched,        \* what the awaited fetch settled with
    calls,          \* the collaborator calls made so far, in order
    result,         \* what the promise of processCommand settled with
    \* calls of the exported and internal functions of aiService.js
    aiCall,         \* the last call: function, arguments, moment, result
    aiAgain,        \* the same call made once more: moment, result
    \* the state of the App component (App.js)
    isListening,    \* useState(false)
    transcript,     \* useState('')
    response,       \* useState('')
    isLoading,      \* useState(false)
    inFlight,       \* the handleCommand invocations awaiting processCommand, oldest first
    issued,         \* how many times handleCommand has been invoked
    shown,          \* the invocation whose message response holds, 0 for none
    spoken,         \* the text last passed to speak
    \* speechService.js and the speech synthesizer of the browser
    speakCalls,     \* the calls of speak so far: textChunks, utteranceIndex, onEnd
    synthQueue,     \* the utterances the synthesizer holds, the first being spoken
    pendingEvents,  \* the events of cancelled utterances not yet dispatched
    handed,         \* every utterance passed to speechSynthesis.speak, in order
    \* authService (in aiService.js), localStorage and the axios interceptors
    storage,        \* localStorage: the tokens and the user, and the calls of logout
    chain,          \* the requests of one interceptor chain awaiting, the innermost last
    settled,        \* what the promise of the outermost request settled with
    refreshCount,   \* how many refresh requests the chain has sent
    authCheck,      \* the call of isAuthenticated: what it found and returned
    \* the SettingsPanel component
    newContact,     \* the text of the "Add contact email" field
    panelOp,        \* the last operation of the panel and the settings it found
    \* the environment
    now             \* the wall clock: milliseconds of local time since a midnight

cmdVars == <<command, settings, pc, parsedCommand, fetched, calls, result>>
aiVars == <<aiCall, aiAgain>>
appVars == <<isListening, transcript, response, isLoading, inFlight, issued, shown, spoken>>
speechVars == <<speakCalls, synthQueue, pendingEvents, handed>>
authVars == <<storage, chain, settled, refreshCount, authCheck>>
panelVars == <<newContact, panelOp>>
svcVars == <<speechVars, authVars, panelVars>>
vars == <<cmdVars, aiVars, appVars, svcVars, now>>

----------------------------------------------------------------------------
(* Characters and strings *)

\* F(v), with v evaluated once however often F uses it
Bind(v, F(_)) == CHOOSE r \in {F(x) : x \in {v}} : TRUE

Min(S) == Bind(S, LAMBDA T : CHOOSE x \in T : \A y \in T : x <= y)
Max(S) == Bind(S, LAMBDA T : CHOOSE x \in T : \A y \in T : x >= y)

\* JavaScript null, distinct from every string
Null == <<"<null>">>

\* `v || d` and `if (v)` on a string or null
Truthy(v) == v # Null /\ v # <<>>

IsSpace(c) == c \in {" ", "\t", "\n"}

IsDigit(c) == c \in {"0", "1", "2", "3", "4", "5", "6", "7", "8", "9"}

UpperCase == <<"A", "B", "C", "D", "E", "F", "G", "H", "I", "J", "K", "L", "M",
               "N", "O", "P", "Q", "R", "S", "T", "U", "V", "W", "X", "Y", "Z">>

LowerCase == <<"a", "b", "c", "d", "e", "f", "g", "h", "i", "j", "k", "l", "m",
               "n", "o", "p", "q", "r", "s", "t", "u", "v", "w", "x", "y", "z">>

\* String.prototype.toLowerCase
ToLowerChar(c) ==
    IF \E k \in 1..26 : UpperCase[k] = c
    THEN LowerCase[CHOOSE k \in 1..26 : UpperCase[k] = c]
    ELSE c

toLowerCase(s) ==
    Bind(s, LAMBDA t : SubSeq([i \in 1..Len(t) |-> ToLowerChar(t[i])], 1, Len(t)))

\* String.prototype.trim
trim(s) ==
    Bind(s, LAMBDA t :
        Bind({i \in 1..Len(t) : ~IsSpace(t[i])}, LAMBDA idx :
            IF idx = {} THEN <<>> ELSE SubSeq(t, Min(idx), Max(idx))))

\* does p occur in s at position i (1-based)
StartsWithAt(s, i, p) ==
    \E q \in {p} :
        /\ i >= 1
        /\ i + Len(q) - 1 <= Len(s)
        /\ \A j \in 1..Len(q) : s[i + j - 1] = q[j]

\* the positions at which p occurs in s
IndexesOf(s, p) ==
    Bind(p, LAMBDA q : {i \in 1..(Len(s) - Len(q) + 1) : StartsWithAt(s, i, q)})

\* String.prototype.includes
includes(s, p) ==
    \E q \in {p} : \E i \in 1..(Len(s) - Len(q) + 1) : StartsWithAt(s, i, q)

\* the number of whitespace characters of s from position p on
SpacesFrom(s, p) ==
    Bind({q \in p..Len(s) : ~IsSpace(s[q])}, LAMBDA stop :
        IF stop = {} THEN Len(s) - p + 1 ELSE Min(stop) - p)

\* the number of digits of s from position p on
DigitsFrom(s, p) ==
    Bind({q \in p..Len(s) : ~IsDigit(s[q])}, LAMBDA stop :
        IF stop = {} THEN Len(s) - p + 1 ELSE Min(stop) - p)

\* the rest of the line from position p on: what (.*) captures there
RestOfLine(s, p) ==
    Bind({q \in p..Len(s) : s[q] = "\n"}, LAMBDA nl :
        IF nl = {} THEN SubSeq(s, p, Len(s)) ELSE SubSeq(s, p, Min(nl) - 1))

\* the keywords of the command grammar, as characters
Kw(w) ==
    CASE w = "read me my emails" ->
           <<"r", "e", "a", "d", " ", "m", "e", " ", "m", "y", " ", "e", "m", "a", "i", "l", "s">>
      [] w = "read my emails" ->
           <<"r", "e", "a", "d", " ", "m", "y", " ", "e", "m", "a", "i", "l", "s">>
      [] w = "tell me what i have to do today" ->
           <<"t", "e", "l", "l", " ", "m", "e", " ", "w", "h", "a", "t", " ", "i", " ",
             "h", "a", "v", "e", " ", "t", "o", " ", "d", "o", " ", "t", "o", "d", "a", "y">>
      [] w = "what do i have to do today" ->
           <<"w", "h", "a", "t", " ", "d", "o", " ", "i", " ", "h", "a", "v", "e", " ",
             "t", "o", " ", "d", "o", " ", "t", "o", "d", "a", "y">>
      [] w = "read my agenda" ->
           <<"r", "e", "a", "d", " ", "m", "y", " ", "a", "g", "e", "n", "d", "a">>
      [] w = "read my calendar" ->
           <<"r", "e", "a", "d", " ", "m", "y", " ", "c", "a", "l", "e", "n", "d", "a", "r">>
      [] w = "ignore" -> <<"i", "g", "n", "o", "r", "e">>
      [] w = "respond" -> <<"r", "e", "s", "p", "o", "n", "d">>
      [] w = "respond later" ->
           <<"r", "e", "s", "p", "o", "n", "d", " ", "l", "a", "t", "e", "r">>
      [] w = "mark" -> <<"m", "a", "r", "k">>
      [] w = "important" -> <<"i", "m", "p", "o", "r", "t", "a", "n", "t">>
      [] w = "not important" ->
           <<"n", "o", "t", " ", "i", "m", "p", "o", "r", "t", "a", "n", "t">>
      [] w = "accept" -> <<"a", "c", "c", "e", "p", "t">>
      [] w = "decline" -> <<"d", "e", "c", "l", "i", "n", "e">>
      [] w = "maybe" -> <<"m", "a", "y", "b", "e">>
      [] w = "find me a new time" ->
           <<"f", "i", "n", "d", " ", "m", "e", " ", "a", " ", "n", "e", "w", " ", "t", "i", "m", "e">>
      [] w = "schedule" -> <<"s", "c", "h", "e", "d", "u", "l", "e">>
      [] w = "reprioritize" ->
           <<"r", "e", "p", "r", "i", "o", "r", "i", "t", "i", "z", "e">>
      [] w = "later" -> <<"l", "a", "t", "e", "r">>
      [] w = "at" -> <<"a", "t">>
      [] w = "on" -> <<"o", "n">>
      [] w = "with" -> <<"w", "i", "t", "h">>
      [] w = "tomorrow" -> <<"t", "o", "m", "o", "r", "r", "o", "w">>
      [] w = "today" -> <<"t", "o", "d", "a", "y">>
      [] w = "in" -> <<"i", "n">>
      [] w = "for" -> <<"f", "o", "r">>
      [] w = "hey jarvis" -> <<"h", "e", "y", " ", "j", "a", "r", "v", "i", "s">>

----------------------------------------------------------------------------
(* The regular expressions of parseCommand *)

NoMatch == [matched |-> FALSE, group |-> Null]

\* the lookahead (?=\s+(?:k1|k2|...)) at position p, or (?=\s+(?:...)|$)
\* when atEnd is allowed
Lookahead(s, p, kws, atEnd) ==
    \/ atEnd /\ p = Len(s) + 1
    \/ /\ p <= Len(s)
       /\ IsSpace(s[p])
       /\ \E n \in {SpacesFrom(s, p)} : \E k \in kws : StartsWithAt(s, p + n, Kw(k))

\* the lengths the lazy group (.*?) can have from position p on
GroupLengths(s, p, kws, atEnd) ==
    {l \in 0..(Len(s) - p + 1) :
        /\ \A q \in p..(p + l - 1) : s[q] # "\n"
        /\ Lookahead(s, p + l, kws, atEnd)}

\* \s+(.*?)(?=...) tried at position p, just after the head of the pattern:
\* the whitespace is greedy, the group is lazy
LazyGroupAt(s, p0, kws, atEnd) ==
    Bind(p0, LAMBDA p :
        Bind({n \in 1..SpacesFrom(s, p) : GroupLengths(s, p + n, kws, atEnd) # {}},
             LAMBDA ns :
                IF ns = {} THEN NoMatch
                ELSE Bind(p + Max(ns), LAMBDA g :
                        Bind(Min(GroupLengths(s, g, kws, atEnd)), LAMBDA l :
                            [matched |-> TRUE, group |-> SubSeq(s, g, g + l - 1)]))))

\* the pattern tried at position i: one of the heads, then LazyGroupAt
MatchLazyAt(s, i, heads, kws, atEnd) ==
    Bind({h \in heads : StartsWithAt(s, i, Kw(h))}, LAMBDA at :
        IF at = {} THEN NoMatch
        ELSE LazyGroupAt(s, i + Len(Kw(CHOOSE h \in at : TRUE)), kws, atEnd))

\* String.prototype.match with /(?:h1|h2)\s+(.*?)(?=\s+(?:k1|...)[|$])/i:
\* the leftmost position at which the pattern matches
MatchLazy(s, heads0, kws0, atEnd) ==
    Bind(heads0, LAMBDA heads : Bind(kws0, LAMBDA kws :
        Bind({i \in 1..Len(s) : MatchLazyAt(s, i, heads, kws, atEnd).matched}, LAMBDA ok :
            IF ok = {} THEN NoMatch ELSE MatchLazyAt(s, Min(ok), heads, kws, atEnd))))

\* command.match(/respond:?\s*(.*)/i)
MatchRespond(s) ==
    Bind(IndexesOf(s, Kw("respond")), LAMBDA is :
        IF is = {} THEN NoMatch
        ELSE Bind(Min(is) + Len(Kw("respond")), LAMBDA p :
                Bind(IF p <= Len(s) /\ s[p] = ":" THEN p + 1 ELSE p, LAMBDA q :
                    [matched |-> TRUE, group |-> RestOfLine(s, q + SpacesFrom(s, q))])))

\* /later\s+at\s+(\d+.../ tried at an occurrence i of "later": the position
\* at which the digits of the group start, or 0 when there is no match at i
LaterAtDigits(s, i) ==
    Bind(i + Len(Kw("later")), LAMBDA p :
        Bind(p + SpacesFrom(s, p), LAMBDA a :
            Bind(a + 2 + SpacesFrom(s, a + 2), LAMBDA d :
                IF /\ a > p
                   /\ StartsWithAt(s, a, Kw("at"))
                   /\ d > a + 2
                   /\ DigitsFrom(s, d) >= 1
                THEN d ELSE 0)))

\* the group (\d+(?::\d+)?(?:\s*[ap]m)?) starting at position d
LaterAtGroup(s, d) ==
    Bind(d + DigitsFrom(s, d), LAMBDA e1 :
        Bind(IF e1 <= Len(s) /\ s[e1] = ":" /\ DigitsFrom(s, e1 + 1) >= 1
             THEN e1 + 1 + DigitsFrom(s, e1 + 1) ELSE e1, LAMBDA e2 :
            Bind(e2 + SpacesFrom(s, e2), LAMBDA m :
                IF m + 1 <= Len(s) /\ s[m] \in {"a", "p"} /\ s[m + 1] = "m"
                THEN SubSeq(s, d, m + 1) ELSE SubSeq(s, d, e2 - 1))))

\* command.match(/later\s+at\s+(\d+(?::\d+)?(?:\s*[ap]m)?)/i)
MatchLaterAt(s) ==
    Bind({i \in IndexesOf(s, Kw("later")) : LaterAtDigits(s, i) # 0}, LAMBDA ok :
        IF ok = {} THEN NoMatch
        ELSE [matched |-> TRUE, group |-> LaterAtGroup(s, LaterAtDigits(s, Min(ok)))])

\* command.match(/reprioritize\s+(.*)/i)
MatchReprioritize(s) ==
    Bind({i \in IndexesOf(s, Kw("reprioritize")) :
             SpacesFrom(s, i + Len(Kw("reprioritize"))) >= 1}, LAMBDA ok :
        IF ok = {} THEN NoMatch
        ELSE Bind(Min(ok) + Len(Kw("reprioritize")), LAMBDA p :
                [matched |-> TRUE, group |-> RestOfLine(s, p + SpacesFrom(s, p))]))

----------------------------------------------------------------------------
(* voiceProcessor.js: the intent parser *)

COMMAND_TYPES ==
    {"READ_EMAILS", "READ_AGENDA", "IGNORE", "RESPOND", "RESPOND_LATER",
     "SET_IMPORTANT", "CALENDAR_RESPONSE", "SCHEDULE", "REPRIORITIZE", "UNKNOWN"}

\* the object of the other rules, with an empty payload
UnknownCommandWithPayload == [type |-> "UNKNOWN", payload |-> [id |-> <<>>]]

\* what parseCommand returns when no rule matches: an intent and nothing else
UnknownCommand == [type |-> "UNKNOWN"]

\* an if / else-if chain in the place of the three ifs: the first keyword wins
CalendarResponseElseIf(cmd) ==
    IF includes(cmd, Kw("decline")) THEN "decline"
    ELSE IF includes(cmd, Kw("maybe")) THEN "maybe"
    ELSE IF includes(cmd, Kw("find me a new time")) THEN "reschedule"
    ELSE "accept"

\* the CALENDAR_RESPONSE branch: three unconditional ifs, each overwriting
CalendarResponseOf(cmd) ==
    LET r0 == "accept"
        r1 == IF includes(cmd, Kw("decline")) THEN "decline" ELSE r0
        r2 == IF includes(cmd, Kw("maybe")) THEN "maybe" ELSE r1
        r3 == IF includes(cmd, Kw("find me a new time")) THEN "reschedule" ELSE r2
    IN  r3

\* the group of a match, or the default when there was no match
GroupOr(m, default) == IF m.matched THEN m.group ELSE default

\* the SCHEDULE branch: four independent regular expressions
whatOf(cmd) ==
    GroupOr(MatchLazy(cmd, {"schedule"},
                      {"at", "on", "with", "tomorrow", "today", "in", "for"}, FALSE), <<>>)

whenOf(cmd) ==
    GroupOr(MatchLazy(cmd, {"at", "on"}, {"with", "at", "in", "for"}, TRUE), <<>>)

withWhomOf(cmd) ==
    GroupOr(MatchLazy(cmd, {"with"}, {"at", "in", "for"}, TRUE), <<>>)

whereOf(cmd) ==
    GroupOr(MatchLazy(cmd, {"at", "in"}, {"for"}, TRUE), <<>>)

ScheduleEntities(cmd) ==
    [what |-> whatOf(cmd), when |-> whenOf(cmd),
     withWhom |-> withWhomOf(cmd), where |-> whereOf(cmd)]

\* the if / else-if chain from the RESPOND test on
ParseFromRespond(cmd) ==
    IF includes(cmd, Kw("respond")) /\ ~includes(cmd, Kw("respond later"))
    THEN [type |-> "RESPOND",
          payload |-> [message |-> GroupOr(MatchRespond(cmd), <<>>)]]
    ELSE IF includes(cmd, Kw("respond later"))
    THEN [type |-> "RESPOND_LATER",
          payload |-> [time |-> GroupOr(MatchLaterAt(cmd), Null)]]
    ELSE IF /\ includes(cmd, Kw("mark"))
            /\ (includes(cmd, Kw("important")) \/ includes(cmd, Kw("not important")))
    THEN [type |-> "SET_IMPORTANT",
          payload |-> [isImportant |-> ~includes(cmd, Kw("not important"))]]
    ELSE IF \/ includes(cmd, Kw("accept"))
            \/ includes(cmd, Kw("decline"))
            \/ includes(cmd, Kw("maybe"))
            \/ includes(cmd, Kw("find me a new time"))
    THEN [type |-> "CALENDAR_RESPONSE",
          payload |-> [response |-> CalendarResponseOf(cmd)]]
    ELSE IF includes(cmd, Kw("schedule"))
    THEN [type |-> "SCHEDULE", payload |-> ScheduleEntities(cmd)]
    ELSE IF includes(cmd, Kw("reprioritize"))
    THEN [type |-> "REPRIORITIZE",
          payload |-> [id |-> GroupOr(MatchReprioritize(cmd), <<>>)]]
    ELSE UnknownCommand

IsReadEmails(cmd) ==
    includes(cmd, Kw("read me my emails")) \/ includes(cmd, Kw("read my emails"))

IsReadAgenda(cmd) ==
    \/ includes(cmd, Kw("tell me what i have to do today"))
    \/ includes(cmd, Kw("what do i have to do today"))
    \/ includes(cmd, Kw("read my agenda"))
    \/ includes(cmd, Kw("read my calendar"))

\* a chain that tests "ignore" after every other keyword instead of third
ParseIgnoreLast(cmd) ==
    IF IsReadEmails(cmd) THEN [type |-> "READ_EMAILS"]
    ELSE IF IsReadAgenda(cmd) THEN [type |-> "READ_AGENDA"]
    ELSE IF ParseFromRespond(cmd).type = "UNKNOWN" /\ includes(cmd, Kw("ignore"))
    THEN [type |-> "IGNORE"]
    ELSE ParseFromRespond(cmd)

\* the if / else-if chain on the lower-cased, trimmed command
ParseLowered(cmd) ==
    IF IsReadEmails(cmd) THEN [type |-> "READ_EMAILS"]
    ELSE IF IsReadAgenda(cmd) THEN [type |-> "READ_AGENDA"]
    ELSE IF includes(cmd, Kw("ignore")) THEN [type |-> "IGNORE"]
    ELSE ParseFromRespond(cmd)

parseCommand(cmd) == Bind(trim(toLowerCase(cmd)), ParseLowered)

----------------------------------------------------------------------------
(* aiService.js: time utilities.  A Date is a number of milliseconds of    *)
(* local time, counted from a local midnight.                              *)

MsPerMinute == 60000
MinutesPerHour == 60
HoursPerDay == 24
HalfDayHours == 12
MsPerDay == HoursPerDay * MinutesPerHour * MsPerMinute

\* a moment, from its day, hour and minute
At(day, h, m) == ((day * HoursPerDay + h) * MinutesPerHour + m) * MsPerMinute

Digit(d) == <<"0", "1", "2", "3", "4", "5", "6", "7", "8", "9">>[d + 1]

\* `${n}` for an integer n
RECURSIVE NatToStr(_)
NatToStr(n) == IF n < 10 THEN <<Digit(n)>> ELSE NatToStr(n \div 10) \o <<Digit(n % 10)>>

NumToStr(n) == IF n < 0 THEN <<"-">> \o NatToStr(-n) ELSE NatToStr(n)

\* Math.round(x / d) for d > 0: the nearest integer, halves upwards
RoundDiv(x, d) == (2 * x + d) \div (2 * d)

\* formatTime without the 12 in the place of hour 0
formatTimeZeroHour(date) ==
    LET hours == (date \div (MinutesPerHour * MsPerMinute)) % HoursPerDay
        minutes == (date \div MsPerMinute) % MinutesPerHour
        ampm == IF hours >= HalfDayHours THEN "pm" ELSE "am"
        hours12 == hours % HalfDayHours
        minutesStr == IF minutes < 10 THEN <<"0">> \o NumToStr(minutes) ELSE NumToStr(minutes)
    IN  NumToStr(hours12) \o <<":">> \o minutesStr \o <<ampm>>

formatTime(date) ==
    LET hours == (date \div (MinutesPerHour * MsPerMinute)) % HoursPerDay
        minutes == (date \div MsPerMinute) % MinutesPerHour
        ampm == IF hours >= HalfDayHours THEN "pm" ELSE "am"
        hours12 == IF hours % HalfDayHours = 0 THEN HalfDayHours ELSE hours % HalfDayHours
        minutesStr == IF minutes < 10 THEN <<"0">> \o NumToStr(minutes) ELSE NumToStr(minutes)
    IN  NumToStr(hours12) \o <<":">> \o minutesStr \o <<ampm>>

\* "s" unless n is 1
Plural(n) == IF n = 1 THEN "" ELSE "s"

\* calculateDuration with a full hour still told in minutes
calculateDurationHourInMinutes(start, end) ==
    LET durationMinutes == RoundDiv(end - start, MsPerMinute)
    IN  IF durationMinutes <= MinutesPerHour
        THEN NumToStr(durationMinutes) \o <<" minutes">>
        ELSE LET hours == durationMinutes \div MinutesPerHour
                 minutes == durationMinutes % MinutesPerHour
             IN  IF minutes = 0
                 THEN NumToStr(hours) \o <<" hour", Plural(hours)>>
                 ELSE NumToStr(hours) \o <<" hour", Plural(hours), " and ">>
                      \o NumToStr(minutes) \o <<" minute", Plural(minutes)>>

calculateDuration(start, end) ==
    LET durationMinutes == RoundDiv(end - start, MsPerMinute)
    IN  IF durationMinutes < MinutesPerHour
        THEN NumToStr(durationMinutes) \o <<" minutes">>
        ELSE LET hours == durationMinutes \div MinutesPerHour
                 minutes == durationMinutes % MinutesPerHour
             IN  IF minutes = 0
                 THEN NumToStr(hours) \o <<" hour", Plural(hours)>>
                 ELSE NumToStr(hours) \o <<" hour", Plural(hours), " and ">>
                      \o NumToStr(minutes) \o <<" minute", Plural(minutes)>>

----------------------------------------------------------------------------
(* aiService.js: sorting, ranking, conflicts *)

\* Array.prototype.filter
Filter(a, Test(_)) == SelectSeq(a, Test)

\* x put into the sorted sequence after the elements that do not compare
\* greater than it
Insert(sorted, x, Cmp(_, _)) ==
    Bind(Min({k \in 0..Len(sorted) :
                 \A j \in (k + 1)..Len(sorted) : Cmp(sorted[j], x) > 0}),
         LAMBDA k : SubSeq(sorted, 1, k) \o <<x>> \o SubSeq(sorted, k + 1, Len(sorted)))

InsertionSort(a, Cmp(_, _)) ==
    LET upTo[n \in 0..Len(a)] ==
            IF n = 0 THEN <<>>
            ELSE Bind(upTo[n - 1], LAMBDA sorted : Insert(sorted, a[n], Cmp))
    IN  upTo[Len(a)]

\* Array.prototype.sort with a comparator: a stable sort, here by insertion
ArraySort(a, Cmp(_, _)) ==
    LET sort(t) == InsertionSort(t, Cmp)
    IN  Bind(a, sort)

\* the from of an item that has none (a calendar event, say)
NoSender == [name |-> "", email |-> ""]

\* a.from && settings.priorityContacts.includes(a.from.email)
IsPriorityContact(item, settings_) ==
    /\ item.from # NoSender
    /\ \E k \in 1..Len(settings_.priorityContacts) :
          settings_.priorityContacts[k] = item.from.email

\* the comparator of prioritizeItems with the dates of its last line exchanged
PriorityCompareOlderFirst(a, b, settings_) ==
    LET aPriorityContact == IsPriorityContact(a, settings_)
        bPriorityContact == IsPriorityContact(b, settings_)
    IN  IF aPriorityContact /\ ~bPriorityContact THEN -1
        ELSE IF ~aPriorityContact /\ bPriorityContact THEN 1
        ELSE IF a.isImportant /\ ~b.isImportant THEN -1
        ELSE IF ~a.isImportant /\ b.isImportant THEN 1
        ELSE a.timestamp - b.timestamp

\* the comparator of prioritizeItems
PriorityCompare(a, b, settings_) ==
    LET aPriorityContact == IsPriorityContact(a, settings_)
        bPriorityContact == IsPriorityContact(b, settings_)
    IN  IF aPriorityContact /\ ~bPriorityContact THEN -1
        ELSE IF ~aPriorityContact /\ bPriorityContact THEN 1
        ELSE IF a.isImportant /\ ~b.isImportant THEN -1
        ELSE IF ~a.isImportant /\ b.isImportant THEN 1
        ELSE b.timestamp - a.timestamp

\* Arrays are objects: heap is the sequence of the arrays allocated so far,
\* and an array is passed and returned as its index in heap.

\* [...a]: a new array with the elements of a
Spread(heap, a) == Append(heap, heap[a])

\* a.sort(cmp): the array itself is sorted
SortInPlace(heap, a, Cmp(_, _)) == [heap EXCEPT ![a] = ArraySort(heap[a], Cmp)]

\* prioritizeItems sorting items itself: items.sort(...) for [...items].sort(...)
prioritizeItemsNoSpread(heap, items, settings_) ==
    LET cmp(a, b) == PriorityCompare(a, b, settings_)
    IN  [heap |-> SortInPlace(heap, items, cmp), ret |-> items]

\* prioritizeItems on the heap: the array it returns and the heap it leaves
prioritizeItemsOnHeap(heap, items, settings_) ==
    LET cmp(a, b) == PriorityCompare(a, b, settings_)
    IN  Bind(Spread(heap, items), LAMBDA h :
            [heap |-> SortInPlace(h, Len(h), cmp), ret |-> Len(h)])

\* the elements of the array prioritizeItems resolves to
prioritizeItems(items, settings_) ==
    Bind(prioritizeItemsOnHeap(<<items>>, 1, settings_), LAMBDA r : r.heap[r.ret])

\* the test of findScheduleConflicts with <= for <
OverlapsInclusive(event1, event2) ==
    event1.start <= event2.end /\ event2.start <= event1.end

\* the test of findScheduleConflicts on one pair
Overlaps(event1, event2) == event1.start < event2.end /\ event2.start < event1.end

ConflictOf(event1, event2) ==
    LET overlapStart == IF event1.start > event2.start THEN event1.start ELSE event2.start
        overlapEnd == IF event1.end < event2.end THEN event1.end ELSE event2.end
    IN  [event1 |-> event1, event2 |-> event2,
         overlapStart |-> overlapStart, overlapEnd |-> overlapEnd,
         \* a fraction of minutes: numerator and denominator
         duration |-> <<overlapEnd - overlapStart, MsPerMinute>>]

\* the two nested loops with the inner one over every other position
ConflictsOfBothOrders(events) ==
    LET n == Len(events)
        inner[i \in 1..n, j \in 1..(n + 1)] ==
            IF j > n THEN <<>>
            ELSE (IF j # i /\ Overlaps(events[i], events[j])
                  THEN <<ConflictOf(events[i], events[j])>> ELSE <<>>)
                 \o inner[i, j + 1]
        outer[i \in 1..(n + 1)] ==
            IF i > n THEN <<>> ELSE inner[i, 1] \o outer[i + 1]
    IN  outer[1]

\* the two nested loops: i ascending, j ascending from i + 1
ConflictsOf(events) ==
    LET n == Len(events)
        inner[i \in 1..n, j \in 1..(n + 1)] ==
            IF j > n THEN <<>>
            ELSE (IF Overlaps(events[i], events[j])
                  THEN <<ConflictOf(events[i], events[j])>> ELSE <<>>)
                 \o inner[i, j + 1]
        outer[i \in 1..(n + 1)] ==
            IF i > n THEN <<>> ELSE inner[i, i + 1] \o outer[i + 1]
    IN  outer[1]

findScheduleConflicts(events) == Bind(events, ConflictsOf)

----------------------------------------------------------------------------
(* aiService.js: the summarizers *)

PreviewLength == 100

\* the limits object with the limits of concise and medium exchanged
limitsExchanged == [concise |-> 5, medium |-> 3, detailed |-> 7]

\* the limits object of generateEmailSummary
limits == [concise |-> 3, medium |-> 5, detailed |-> 7]

\* Array.prototype.slice(0, n)
SliceTo(a, n) == SubSeq(a, 1, IF n < Len(a) THEN n ELSE Len(a))

\* text.length > 100 ? text.substring(0, 100) + '...' : text
Preview(text) ==
    IF Len(text) > PreviewLength THEN SubSeq(text, 1, PreviewLength) \o <<"...">> ELSE text

\* the concatenation of Line(a[1], 1), Line(a[2], 2), ...: a forEach appending
ForEachLineOf(a, Line(_, _)) ==
    LET upTo[n \in 0..Len(a)] == IF n = 0 THEN <<>> ELSE upTo[n - 1] \o Line(a[n], n)
    IN  upTo[Len(a)]

ForEachLine(a, Line(_, _)) ==
    LET lines(t) == ForEachLineOf(t, Line)
    IN  Bind(a, lines)

IsDetailed(settings_) == settings_.summaryLength \in {"detailed", "everything"}

\* the comparator of generateEmailSummary with the dates exchanged
EmailCompareOlderFirst(a, b) ==
    IF a.isImportant /\ ~b.isImportant THEN -1
    ELSE IF ~a.isImportant /\ b.isImportant THEN 1
    ELSE a.timestamp - b.timestamp

\* the comparator of generateEmailSummary: importance, then recency
EmailCompare(a, b) ==
    IF a.isImportant /\ ~b.isImportant THEN -1
    ELSE IF ~a.isImportant /\ b.isImportant THEN 1
    ELSE b.timestamp - a.timestamp

\* emailsToSummarize on the heap: a copy of emails, sorted and cut to a new
\* array unless everything is asked for
emailsToSummarizeOnHeap(heap, emails, settings_) ==
    Bind(Spread(heap, emails), LAMBDA h :
        IF settings_.summaryLength # "everything"
        THEN Bind(SortInPlace(h, Len(h), EmailCompare), LAMBDA sorted :
                [heap |-> Append(sorted, SliceTo(sorted[Len(h)],
                                                 limits[settings_.summaryLength])),
                 ret |-> Len(h) + 1])
        ELSE [heap |-> h, ret |-> Len(h)])

\* the emails generateEmailSummary narrates
emailsToSummarize(emails, settings_) ==
    Bind(emailsToSummarizeOnHeap(<<emails>>, 1, settings_), LAMBDA r : r.heap[r.ret])

EmailLine(email, index, settings_) ==
    <<>> \o NumToStr(index) \o <<". From ", email.from.name, " at ">>
    \o formatTime(email.timestamp) \o <<", subject: ", email.subject>>
    \o (IF email.isImportant THEN <<" (Important)">> ELSE <<>>)
    \o (IF email.isRead THEN <<>> ELSE <<" (Unread)">>)
    \o (IF email.hasAttachments THEN <<" (Has attachments)">> ELSE <<>>)
    \o <<".\n">>
    \o (IF IsDetailed(settings_)
        THEN <<"   Preview: ">> \o Preview(email.body) \o <<"\n">> ELSE <<>>)
    \o <<"\n">>

\* generateEmailSummary counting over the emails it narrates
generateEmailSummaryCountingNarrated(emails, settings_) ==
    LET unreadCount == Len(Filter(emailsToSummarize(emails, settings_), LAMBDA email : ~email.isRead))
        importantCount == Len(Filter(emailsToSummarize(emails, settings_),
                                    LAMBDA email : email.isImportant))
        line(email, index) == EmailLine(email, index, settings_)
    IN  <<"You have ">> \o NumToStr(Len(emails)) \o <<" emails in your inbox, ">>
        \o NumToStr(unreadCount) \o <<" unread">>
        \o (IF importantCount > 0
            THEN <<", with ">> \o NumToStr(importantCount) \o <<" marked as important">>
            ELSE <<>>)
        \o <<". Would you like to hear about them?\n\n">>
        \o ForEachLine(emailsToSummarize(emails, settings_), line)
        \o <<"You can say \"ignore\", \"respond now\", \"respond later\", or \"mark as important\" after each email.">>

generateEmailSummary(emails, settings_) ==
    LET unreadCount == Len(Filter(emails, LAMBDA email : ~email.isRead))
        importantCount == Len(Filter(emails, LAMBDA email : email.isImportant))
        line(email, index) == EmailLine(email, index, settings_)
    IN  <<"You have ">> \o NumToStr(Len(emails)) \o <<" emails in your inbox, ">>
        \o NumToStr(unreadCount) \o <<" unread">>
        \o (IF importantCount > 0
            THEN <<", with ">> \o NumToStr(importantCount) \o <<" marked as important">>
            ELSE <<>>)
        \o <<". Would you like to hear about them?\n\n">>
        \o ForEachLine(emailsToSummarize(emails, settings_), line)
        \o <<"You can say \"ignore\", \"respond now\", \"respond later\", or \"mark as important\" after each email.">>

\* new Date() without setHours(0, 0, 0, 0)
MidnightNotSet(date) == date

\* today.setHours(0, 0, 0, 0) on new Date(): the midnight before the moment
Midnight(date) == date - (date % MsPerDay)

\* Array.prototype.join(', ')
Join(a) ==
    LET upTo[n \in 0..Len(a)] ==
            IF n = 0 THEN <<>>
            ELSE IF n = 1 THEN <<a[1]>>
            ELSE upTo[n - 1] \o <<", ", a[n]>>
    IN  upTo[Len(a)]

LocationOf(event) == IF event.location # "" THEN <<" at ", event.location>> ELSE <<>>

TodayLine(event, index, settings_) ==
    <<>> \o NumToStr(index) \o <<". At ">> \o formatTime(event.start)
    \o <<": ", event.title>> \o LocationOf(event) \o <<", for ">>
    \o calculateDuration(event.start, event.end)
    \o (IF event.responseStatus = "needsAction"
        THEN <<" (You haven't responded to this invitation yet)">> ELSE <<>>)
    \o <<".\n">>
    \o (IF IsDetailed(settings_)
        THEN (IF Len(event.attendees) > 0
              THEN <<"   With: ">> \o Join(event.attendees) \o <<"\n">> ELSE <<>>)
             \o (IF event.description # <<>>
                 THEN <<"   Details: ">> \o Preview(event.description) \o <<"\n">>
                 ELSE <<>>)
        ELSE <<>>)
    \o <<"\n">>

TomorrowLine(event, index) ==
    <<>> \o NumToStr(index) \o <<". At ">> \o formatTime(event.start)
    \o <<": ", event.title>> \o LocationOf(event) \o <<".\n">>

ConflictLine(conflict, index) ==
    <<>> \o NumToStr(index)
    \o <<". \"", conflict.event1.title, "\" and \"", conflict.event2.title, "\" overlap at ">>
    \o formatTime(conflict.overlapStart) \o <<".\n">>

PriorityLine(event, index) ==
    <<>> \o NumToStr(index) \o <<". ", event.title, " at ">>
    \o formatTime(event.start) \o <<".\n">>

\* the comparator of generateCalendarSummary: start time ascending
EventCompare(a, b) == a.start - b.start

TodaySection(todayEvents, settings_) ==
    LET todayLine(event, index) == TodayLine(event, index, settings_)
    IN  IF Len(todayEvents) > 0
        THEN <<"You have ">> \o NumToStr(Len(todayEvents))
             \o <<" event", Plural(Len(todayEvents)), " scheduled for today.\n\n">>
             \o ForEachLine(todayEvents, todayLine)
        ELSE <<"You have no events scheduled for today.\n\n">>

\* the section of tomorrow with its lines under every length but concise
TomorrowSectionWithLines(tomorrowEvents, settings_) ==
    IF settings_.summaryLength # "concise" /\ Len(tomorrowEvents) > 0
    THEN <<"For tomorrow, you have ">> \o NumToStr(Len(tomorrowEvents))
         \o <<" event", Plural(Len(tomorrowEvents)), " scheduled.\n\n">>
         \o ForEachLine(tomorrowEvents, TomorrowLine) \o <<"\n">>
    ELSE <<>>

TomorrowSection(tomorrowEvents, settings_) ==
    IF settings_.summaryLength # "concise" /\ Len(tomorrowEvents) > 0
    THEN <<"For tomorrow, you have ">> \o NumToStr(Len(tomorrowEvents))
         \o <<" event", Plural(Len(tomorrowEvents)), " scheduled.\n\n">>
         \o (IF settings_.summaryLength # "medium"
             THEN ForEachLine(tomorrowEvents, TomorrowLine) \o <<"\n">>
             ELSE <<>>)
    ELSE <<>>

\* the conflict section shown only for two conflicts or more
ConflictSectionIfSeveral(conflicts) ==
    IF Len(conflicts) > 1
    THEN <<"Attention: I found the following schedule conflicts:\n">>
         \o ForEachLine(conflicts, ConflictLine) \o <<"\n">>
    ELSE <<>>

ConflictSection(conflicts) ==
    IF Len(conflicts) > 0
    THEN <<"Attention: I found the following schedule conflicts:\n">>
         \o ForEachLine(conflicts, ConflictLine) \o <<"\n">>
    ELSE <<>>

PrioritySection(highPriorityEvents, tomorrow, settings_) ==
    IF settings_.summaryLength # "concise" /\ Len(highPriorityEvents) > 0
    THEN <<"Top priorities for today:\n">>
         \o ForEachLine(Filter(highPriorityEvents, LAMBDA event : event.start < tomorrow),
                        PriorityLine)
         \o <<"\n">>
    ELSE <<>>

\* the filter without its upper bound: the events that start at midnight or later
StartingFrom(sortedEvents, midnight) ==
    Filter(sortedEvents, LAMBDA event : event.start >= midnight)

\* the events of the sorted list that start on the day beginning at midnight
StartingOn(sortedEvents, midnight) ==
    Filter(sortedEvents,
           LAMBDA event : event.start >= midnight /\ event.start < midnight + MsPerDay)

\* generateCalendarSummary from the sorted events and today's midnight
SummaryOfSorted(sortedEvents, today, settings_) ==
    Bind(StartingOn(sortedEvents, today), LAMBDA todayEvents :
        TodaySection(todayEvents, settings_))
    \o Bind(StartingOn(sortedEvents, today + MsPerDay), LAMBDA tomorrowEvents :
        TomorrowSection(tomorrowEvents, settings_))
    \o Bind(findScheduleConflicts(sortedEvents), ConflictSection)
    \o Bind(Filter(sortedEvents, LAMBDA event : event.importance = "high"),
            LAMBDA highPriorityEvents :
                PrioritySection(highPriorityEvents, today + MsPerDay, settings_))
    \o <<"You can say \"accept\", \"decline\", \"maybe\", or \"find me a new time\" for any meeting that needs a response.">>

\* sortedEvents on the heap: a sorted copy of events
sortedEventsOnHeap(heap, events) ==
    Bind(Spread(heap, events), LAMBDA h :
        [heap |-> SortInPlace(h, Len(h), EventCompare), ret |-> Len(h)])

\* the elements of sortedEvents
sortedEventsOf(events) ==
    Bind(sortedEventsOnHeap(<<events>>, 1), LAMBDA r : r.heap[r.ret])

\* generateCalendarSummary with the moment new Date() returns
CalendarSummaryAt(events, settings_, date) ==
    Bind(sortedEventsOf(events), LAMBDA sortedEvents :
        Bind(Midnight(date), LAMBDA today : SummaryOfSorted(sortedEvents, today, settings_)))

\* generateCalendarSummary reads the clock
generateCalendarSummary(events, settings_) == CalendarSummaryAt(events, settings_, now)

summarizeWithAI(type, data, settings_) ==
    IF type = "emails" THEN generateEmailSummary(data, settings_)
    ELSE IF type = "calendar" THEN generateCalendarSummary(data, settings_)
    ELSE <<>>

\* the elements of the caller's array once summarizeWithAI has returned: the
\* summarizers write to no array but the copies above (filter and slice
\* return new arrays)
dataAfterSummarize(type, data, settings_) ==
    IF type = "emails" THEN emailsToSummarizeOnHeap(<<data>>, 1, settings_).heap[1]
    ELSE IF type = "calendar" THEN sortedEventsOnHeap(<<data>>, 1).heap[1]
    ELSE data

----------------------------------------------------------------------------
(* voiceProcessor.js: the handlers *)

\* a settled promise
Resolved(value) == [status |-> "resolved", value |-> value]
Rejected(error) == [status |-> "rejected", error |-> error]
Pending == [status |-> "pending"]

EmailsApology ==
    <<"I'm sorry, I couldn't read your emails at this time. Please try again later.">>

AgendaApology ==
    <<"I'm sorry, I couldn't read your agenda at this time. Please try again later.">>

UnknownMessage ==
    <<"I'm sorry, I didn't understand that command. Please try again.">>

\* handleReadEmails without its catch block
handleReadEmailsNoCatch(fetch, settings_) ==
    IF fetch.status = "resolved"
    THEN Resolved([message |-> summarizeWithAI("emails", fetch.value, settings_)])
    ELSE Rejected(fetch.error)

\* handleReadEmails after the awaited fetchEmails has settled: the try block
\* goes on to the summarizer, the catch block answers the apology
handleReadEmails(fetch, settings_) ==
    IF fetch.status = "resolved"
    THEN Resolved([message |-> summarizeWithAI("emails", fetch.value, settings_)])
    ELSE Resolved([message |-> EmailsApology])

\* handleReadAgenda answering the error it caught instead of the apology
handleReadAgendaRawError(fetch, settings_) ==
    IF fetch.status = "resolved"
    THEN Resolved([message |-> summarizeWithAI("calendar", fetch.value, settings_)])
    ELSE Resolved([message |-> <<fetch.error>>])

\* handleReadAgenda after the awaited fetchCalendarEvents has settled
handleReadAgenda(fetch, settings_) ==
    IF fetch.status = "resolved"
    THEN Resolved([message |-> summarizeWithAI("calendar", fetch.value, settings_)])
    ELSE Resolved([message |-> AgendaApology])

\* the collaborator calls handleRead* makes once the fetch has resolved
CallsAfterFetch(type, fetch, settings_) ==
    IF fetch.status = "resolved"
    THEN <<[fn |-> "summarizeWithAI", type |-> type, data |-> fetch.value]>>
    ELSE <<>>

handleRespond(payload, settings_) ==
    Resolved([message |-> <<"I've drafted your response: \"">> \o payload.message
                          \o <<"\". Would you like me to send it now?">>])

handleRespondLater(payload, settings_) ==
    LET time == IF Truthy(payload.time) THEN payload.time
                ELSE <<"in ">> \o NumToStr(settings_.reminderDefaultTime) \o <<" minutes">>
    IN  Resolved([message |-> <<"I'll remind you to respond to this ">> \o time \o <<".">>])

handleSetImportant(payload, settings_) ==
    LET status == IF payload.isImportant THEN "important" ELSE "not important"
    IN  Resolved([message |-> <<"I've marked this as ", status, ".">>])

handleCalendarResponse(payload, settings_) ==
    Resolved([message |->
        CASE payload.response = "accept" -> <<"I've accepted the meeting invitation.">>
          [] payload.response = "decline" -> <<"I've declined the meeting invitation.">>
          [] payload.response = "maybe" ->
               <<"I've tentatively accepted the meeting invitation.">>
          [] payload.response = "reschedule" ->
               <<"I'll look for alternative times for this meeting.">>
          [] OTHER -> <<"I've processed your calendar response.">>])

\* handleSchedule with the time said before the subject
handleScheduleWhenFirst(payload, settings_) ==
    Resolved([message |->
        <<"I'm scheduling ">>
        \o (IF Truthy(payload.when) THEN <<"for ">> \o payload.when \o <<" ">> ELSE <<>>)
        \o (IF Truthy(payload.what) THEN <<"\"">> \o payload.what \o <<"\" ">> ELSE <<>>)
        \o (IF Truthy(payload.withWhom)
            THEN <<"with ">> \o payload.withWhom \o <<" ">> ELSE <<>>)
        \o (IF Truthy(payload.where) THEN <<"at ">> \o payload.where \o <<" ">> ELSE <<>>)
        \o <<". Is that correct?">>])

handleSchedule(payload, settings_) ==
    Resolved([message |->
        <<"I'm scheduling ">>
        \o (IF Truthy(payload.what) THEN <<"\"">> \o payload.what \o <<"\" ">> ELSE <<>>)
        \o (IF Truthy(payload.when) THEN <<"for ">> \o payload.when \o <<" ">> ELSE <<>>)
        \o (IF Truthy(payload.withWhom)
            THEN <<"with ">> \o payload.withWhom \o <<" ">> ELSE <<>>)
        \o (IF Truthy(payload.where) THEN <<"at ">> \o payload.where \o <<" ">> ELSE <<>>)
        \o <<". Is that correct?">>])

handleReprioritize(payload, settings_) ==
    Resolved([message |-> <<"I've reprioritized item ">> \o payload.id \o <<".">>])

\* the cases of processCommand's switch that settle without a fetch
DispatchSync(parsed, settings_) ==
    CASE parsed.type = "IGNORE" -> Resolved([message |-> <<"I'll ignore that item.">>])
      [] parsed.type = "RESPOND" -> handleRespond(parsed.payload, settings_)
      [] parsed.type = "RESPOND_LATER" -> handleRespondLater(parsed.payload, settings_)
      [] parsed.type = "SET_IMPORTANT" -> handleSetImportant(parsed.payload, settings_)
      [] parsed.type = "CALENDAR_RESPONSE" ->
           handleCalendarResponse(parsed.payload, settings_)
      [] parsed.type = "SCHEDULE" -> handleSchedule(parsed.payload, settings_)
      [] parsed.type = "REPRIORITIZE" -> handleReprioritize(parsed.payload, settings_)
      [] OTHER -> Resolved([message |-> UnknownMessage])

----------------------------------------------------------------------------
(* The inputs of the model *)

\* the longest utterance, in fragments of the vocabulary
MaxFrags == 2

\* the fragments utterances are put together from
Vocab ==
    << <<"r", "e", "a", "d", " ", "m", "e", " ", "m", "y", " ", "e", "m", "a", "i", "l", "s">>,
       <<"R", "e", "a", "d", " ", "M", "y", " ", "C", "a", "l", "e", "n", "d", "a", "r">>,
       <<"I", "G", "N", "O", "R", "E">>,
       <<"r", "e", "s", "p", "o", "n", "d", ":", " ", "o", "k">>,
       <<"r", "e", "s", "p", "o", "n", "d", " ", "l", "a", "t", "e", "r">>,
       <<"a", "t", " ", "5", ":", "3", "0", " ", "p", "m">>,
       <<"m", "a", "r", "k">>,
       <<"i", "m", "p", "o", "r", "t", "a", "n", "t">>,
       <<"n", "o", "t", " ", "i", "m", "p", "o", "r", "t", "a", "n", "t">>,
       <<"a", "c", "c", "e", "p", "t">>,
       <<"d", "e", "c", "l", "i", "n", "e">>,
       <<"m", "a", "y", "b", "e">>,
       <<"f", "i", "n", "d", " ", "m", "e", " ", "a", " ", "n", "e", "w", " ", "t", "i", "m", "e">>,
       <<"s", "c", "h", "e", "d", "u", "l", "e", " ", "l", "u", "n", "c", "h">>,
       <<"w", "i", "t", "h", " ", "s", "a", "m">>,
       <<"r", "e", "p", "r", "i", "o", "r", "i", "t", "i", "z", "e">>,
       <<" ", "h", "e", "l", "l", "o", " ">> >>

\* the fragments joined by single spaces
JoinFrags(fs) ==
    LET upTo[n \in 0..Len(fs)] ==
            IF n = 0 THEN <<>>
            ELSE IF n = 1 THEN Vocab[fs[1]]
            ELSE upTo[n - 1] \o <<" ">> \o Vocab[fs[n]]
    IN  upTo[Len(fs)]

FreeUtterances ==
    {JoinFrags(fs) : fs \in UNION {[1..n -> 1..Len(Vocab)] : n \in 0..MaxFrags}}

\* the word sequences of "schedule W at T with P in L"
Whats == { <<"t", "e", "a", "m", " ", "s", "y", "n", "c">>, <<"l", "u", "n", "c", "h">> }
Whens == { <<"3", "p", "m">>, <<"n", "o", "o", "n">> }
Whos == { <<"m", "a", "r", "k", "e", "t", "i", "n", "g">>, <<"s", "a", "m">> }
Wheres == { <<"r", "o", "o", "m", " ", "b">>, <<"t", "h", "e", " ", "c", "a", "f", "e">> }

ScheduleForm(w, t, p, l) ==
    Kw("schedule") \o <<" ">> \o w \o <<" ">> \o Kw("at") \o <<" ">> \o t \o <<" ">>
    \o Kw("with") \o <<" ">> \o p \o <<" ">> \o Kw("in") \o <<" ">> \o l

ScheduleUtterances ==
    {ScheduleForm(w, t, p, l) : w \in Whats, t \in Whens, p \in Whos, l \in Wheres}

Utterances == FreeUtterances \cup ScheduleUtterances

\* senders of emails
Ann == [name |-> "Ann", email |-> "ann@example.com"]
Bob == [name |-> "Bob", email |-> "bob@example.com"]

\* the subjects of emails, one for each id
Subjects ==
    <<"Status", "Lunch", "Invoice", "Hello", "Offsite", "Budget", "Hiring", "Launch",
      "Retro", "Roadmap", "Travel", "Survey">>

MkEmail(id, from, isImportant, isRead, timestamp) ==
    [id |-> id, from |-> from,
     subject |-> Subjects[id],
     body |-> <<"h", "i">>, timestamp |-> timestamp, isRead |-> isRead,
     isImportant |-> isImportant, hasAttachments |-> (id = 3)]

MkEvent(id, start, end, importance) ==
    [id |-> id, title |-> <<"Standup", "Review", "Dinner", "Dentist">>[id],
     start |-> start, end |-> end,
     location |-> IF id = 2 THEN "Room B" ELSE "",
     attendees |-> IF id = 2 THEN <<"ann@example.com", "bob@example.com">> ELSE <<>>,
     description |-> IF id = 3 THEN <<"w", "i", "t", "h", " ", "c", "l", "i", "e", "n", "t">>
                     ELSE <<>>,
     responseStatus |-> IF id = 2 THEN "needsAction" ELSE "accepted",
     importance |-> importance]

\* the settings App.js starts with, and settings a user has edited
DefaultSettings ==
    [summaryLength |-> "medium", priorityContacts |-> <<>>, reminderDefaultTime |-> 60]

EditedSettings ==
    [summaryLength |-> "everything", priorityContacts |-> <<"ann@example.com">>,
     reminderDefaultTime |-> 15]

\* what the email source and the calendar source may answer
FetchableInboxes ==
    { <<>>,
      <<MkEmail(1, Bob, FALSE, TRUE, At(0, 7, 0)), MkEmail(2, Ann, TRUE, FALSE, At(0, 6, 0))>> }

FetchableCalendars ==
    { <<>>,
      <<MkEvent(2, At(0, 9, 30), At(0, 10, 30), "high"),
        MkEvent(1, At(0, 9, 0), At(0, 10, 0), "medium"),
        MkEvent(4, At(1, 14, 0), At(1, 15, 0), "medium")>> }

FetchError == "fetch failed"

----------------------------------------------------------------------------
(* One invocation of processCommand *)

AIIdle == aiCall = [fn |-> "none"] /\ aiAgain = [done |-> FALSE]

\* no call of speak has been made and the synthesizer is silent
SpeechIdle ==
    /\ speakCalls = <<>>
    /\ synthQueue = <<>>
    /\ pendingEvents = {}
    /\ handed = <<>>

\* nothing is stored, no request is in flight
NoTokens == [present |-> FALSE, refresh_token |-> FALSE, expiry_date |-> 0]
SignedOut == [tokens |-> NoTokens, user |-> FALSE, logouts |-> 0]

AuthIdle ==
    /\ chain = <<>>
    /\ settled = [status |-> "none"]
    /\ refreshCount = 0
    /\ authCheck = [status |-> "none"]

\* the panel as it is mounted
PanelIdle == newContact = "" /\ panelOp = [op |-> "none"]

ServicesIdle == SpeechIdle /\ AuthIdle /\ storage = SignedOut /\ PanelIdle

\* the App component as it is mounted
AppMounted ==
    /\ isListening = FALSE
    /\ transcript = <<>>
    /\ response = <<>>
    /\ isLoading = FALSE
    /\ inFlight = <<>>
    /\ issued = 0
    /\ shown = 0
    /\ spoken = <<>>

InitCmd ==
    /\ command \in Utterances
    /\ settings \in {DefaultSettings, EditedSettings}
    /\ pc = "idle"
    /\ parsedCommand = [type |-> "none"]
    /\ fetched = Pending
    /\ calls = <<>>
    /\ result = Pending
    /\ now = At(0, 8, 0)
    /\ AIIdle
    /\ AppMounted
    /\ ServicesIdle

\* processCommand is called: parseCommand, then the switch.  A handler that
\* fetches is left awaiting its fetch; every other case settles.
ProcessCommand ==
    /\ pc = "idle"
    /\ \E parsed \in {parseCommand(command)} :
           /\ parsedCommand' = parsed
           /\ IF parsed.type = "READ_EMAILS"
              THEN /\ pc' = "awaitFetchEmails"
                   /\ calls' = Append(calls, [fn |-> "fetchEmails"])
                   /\ result' = result
              ELSE IF parsed.type = "READ_AGENDA"
              THEN /\ pc' = "awaitFetchCalendarEvents"
                   /\ calls' = Append(calls, [fn |-> "fetchCalendarEvents"])
                   /\ result' = result
              ELSE /\ pc' = "settled"
                   /\ calls' = calls
                   /\ result' = DispatchSync(parsed, settings)
    /\ UNCHANGED <<command, settings, fetched, aiVars, appVars, svcVars, now>>

\* the fetch handleReadEmails awaits settles with outcome
EmailsSettles(outcome) ==
    /\ pc = "awaitFetchEmails"
    /\ fetched' = outcome
    /\ calls' = calls \o CallsAfterFetch("emails", outcome, settings)
    /\ result' = handleReadEmails(outcome, settings)
    /\ pc' = "settled"
    /\ UNCHANGED <<command, settings, parsedCommand, aiVars, appVars, svcVars, now>>

\* the fetch handleReadAgenda awaits settles with outcome
CalendarSettles(outcome) ==
    /\ pc = "awaitFetchCalendarEvents"
    /\ fetched' = outcome
    /\ calls' = calls \o CallsAfterFetch("calendar", outcome, settings)
    /\ result' = handleReadAgenda(outcome, settings)
    /\ pc' = "settled"
    /\ UNCHANGED <<command, settings, parsedCommand, aiVars, appVars, svcVars, now>>

FetchEmailsResolves == \E inbox \in FetchableInboxes : EmailsSettles(Resolved(inbox))
FetchEmailsRejects == EmailsSettles(Rejected(FetchError))
FetchCalendarEventsResolves ==
    \E events \in FetchableCalendars : CalendarSettles(Resolved(events))
FetchCalendarEventsRejects == CalendarSettles(Rejected(FetchError))

NextCmd ==
    \/ ProcessCommand
    \/ FetchEmailsResolves
    \/ FetchEmailsRejects
    \/ FetchCalendarEventsResolves
    \/ FetchCalendarEventsRejects

SpecCmd == InitCmd /\ [][NextCmd]_vars

\* the call is made, and an awaited fetch settles one way or the other
SpecCmdFair == SpecCmd /\ WF_vars(NextCmd)

----------------------------------------------------------------------------
(* Calls of the functions of aiService.js *)

\* the longest list passed to prioritizeItems
MaxItems == 3

\* the longest list passed to findScheduleConflicts
MaxEvents == 3

\* the from field of an item: a sender, or none
Senders == {Ann, Bob, NoSender}
Timestamps == {At(0, 6, 0), At(0, 7, 0)}

\* the lists of at most n elements of S
ListsOf(S, n) == UNION {[1..k -> S] : k \in 0..n}

\* items numbered by their position in the list
ItemLists ==
    {[k \in 1..Len(f) |-> MkEmail(k, f[k][1], f[k][2], FALSE, f[k][3])] :
        f \in ListsOf(Senders \X BOOLEAN \X Timestamps, MaxItems)}

Slots == {At(0, 9, 0), At(0, 9, 30), At(0, 10, 0), At(0, 10, 30)}

\* events that end no earlier than they start, numbered by their position
EventLists ==
    {[k \in 1..Len(f) |-> MkEvent(k, f[k][1], f[k][2], "medium")] :
        f \in ListsOf({iv \in Slots \X Slots : iv[1] <= iv[2]}, MaxEvents)}

\* the most emails passed to the email summarizer
MaxInbox == 10

\* the minute of the hour at which email k of n arrived
ArrivalMinute(order, k, n) ==
    CASE order = "ascending" -> k
      [] order = "descending" -> n + 1 - k
      [] order = "mixed" -> (7 * k) % 13
      [] order = "together" -> 0

\* whether email k is flagged important
Flagged(flags, k) ==
    CASE flags = "none" -> FALSE
      [] flags = "every third" -> k % 3 = 0
      [] flags = "all but the first" -> k > 1

\* inboxes of up to MaxInbox emails, numbered by their position; every
\* second email is unread
SummaryInboxes ==
    {[k \in 1..n |-> MkEmail(k, IF k % 2 = 0 THEN Ann ELSE Bob, Flagged(flags, k),
                             k % 2 = 1, At(0, 6, ArrivalMinute(order, k, n)))] :
        n \in 0..MaxInbox,
        order \in {"ascending", "descending", "mixed", "together"},
        flags \in {"none", "every third", "all but the first"}}

\* the most events passed to the calendar summarizer
MaxAgenda == 2

\* the days events start on, and their hours: two hours that overlap
AgendaDays == {0, 1, 2}
AgendaHours == {<<9, 0, 10, 0>>, <<9, 30, 10, 30>>}

\* calendars of up to MaxAgenda events, numbered by their position
SummaryCalendars ==
    {[k \in 1..Len(f) |->
         MkEvent(k, At(f[k][1], f[k][2][1], f[k][2][2]), At(f[k][1], f[k][2][3], f[k][2][4]),
                 f[k][3])] :
        f \in ListsOf(AgendaDays \X AgendaHours \X {"high", "medium"}, MaxAgenda)}

\* settings with each of the summary lengths
SummaryLengths == {"concise", "medium", "detailed", "everything"}
SummarySettings ==
    {[DefaultSettings EXCEPT !.summaryLength = l] : l \in SummaryLengths} \cup {EditedSettings}

\* the moments at which a call is made
NowValues == {At(0, 8, 0), At(0, 12, 0), At(1, 8, 0)}

IdleCommand ==
    /\ command = <<>>
    /\ settings = DefaultSettings
    /\ pc = "idle"
    /\ parsedCommand = [type |-> "none"]
    /\ fetched = Pending
    /\ calls = <<>>
    /\ result = Pending

InitAI ==
    /\ IdleCommand
    /\ AIIdle
    /\ AppMounted
    /\ ServicesIdle
    /\ now = At(0, 8, 0)

\* time passes
Tick ==
    /\ \E t \in NowValues : t > now /\ now' = t
    /\ UNCHANGED <<cmdVars, aiVars, appVars, svcVars>>

CallPrioritizeItems ==
    /\ aiCall.fn = "none"
    /\ \E items \in ItemLists, s \in {DefaultSettings, EditedSettings} :
          \E r \in {prioritizeItemsOnHeap(<<items>>, 1, s)} :
              aiCall' = [fn |-> "prioritizeItems", items |-> items, settings |-> s,
                         out |-> r.heap[r.ret], after |-> r.heap[1]]
    /\ UNCHANGED <<cmdVars, aiAgain, appVars, svcVars, now>>

CallFindScheduleConflicts ==
    /\ aiCall.fn = "none"
    /\ \E events \in EventLists :
          aiCall' = [fn |-> "findScheduleConflicts", events |-> events,
                     out |-> findScheduleConflicts(events)]
    /\ UNCHANGED <<cmdVars, aiAgain, appVars, svcVars, now>>

CallSummarizeWithAI ==
    /\ aiCall.fn = "none"
    /\ \E type \in {"emails", "calendar"}, s \in SummarySettings :
          \E data \in IF type = "emails" THEN FetchableInboxes \cup SummaryInboxes
                       ELSE FetchableCalendars \cup SummaryCalendars :
              aiCall' = [fn |-> "summarizeWithAI", type |-> type, data |-> data,
                         settings |-> s, at |-> now,
                         out |-> summarizeWithAI(type, data, s),
                         after |-> dataAfterSummarize(type, data, s)]
    /\ UNCHANGED <<cmdVars, aiAgain, appVars, svcVars, now>>

\* summarizeWithAI is called once more with the arguments of the last call
CallSummarizeWithAIAgain ==
    /\ aiCall.fn = "summarizeWithAI"
    /\ ~aiAgain.done
    /\ aiAgain' = [done |-> TRUE, at |-> now,
                   out |-> summarizeWithAI(aiCall.type, aiCall.data, aiCall.settings)]
    /\ UNCHANGED <<cmdVars, aiCall, appVars, svcVars, now>>

NextAI ==
    \/ Tick
    \/ CallPrioritizeItems
    \/ CallFindScheduleConflicts
    \/ CallSummarizeWithAI
    \/ CallSummarizeWithAIAgain

SpecAI == InitAI /\ [][NextAI]_vars

----------------------------------------------------------------------------
(* speechService.js: the chunks of a text *)

\* String.prototype.split on the white space that follows one of the marks:
\* the pieces of text from position from on
RECURSIVE SplitFrom(_, _, _)
SplitFrom(text, marks, from) ==
    Bind({i \in from..Len(text) : i > 1 /\ IsSpace(text[i]) /\ text[i - 1] \in marks},
         LAMBDA cuts :
             IF cuts = {} THEN <<SubSeq(text, from, Len(text))>>
             ELSE Bind(Min(cuts), LAMBDA i :
                      Bind(Min({k \in i..(Len(text) + 1) :
                                   k > Len(text) \/ ~IsSpace(text[k])}),
                           LAMBDA j : <<SubSeq(text, from, i - 1)>>
                                      \o SplitFrom(text, marks, j))))

\* text.split(/(?<=[.!?])\s+/) and sentence.split(/(?<=,)\s+/)
SplitAfter(text, marks) == SplitFrom(text, marks, 1)

\* the while loop that cuts a clause into pieces of maxLength characters
ForceSplit(clause, maxLength) ==
    [k \in 1..((Len(clause) + maxLength - 1) \div maxLength) |->
        SubSeq(clause, (k - 1) * maxLength + 1,
               IF k * maxLength < Len(clause) THEN k * maxLength ELSE Len(clause))]

\* currentChunk += (currentChunk ? ' ' : '') + part
Joined(currentChunk, part) ==
    currentChunk \o (IF currentChunk # <<>> THEN <<" ">> ELSE <<>>) \o part

\* one turn of the loop over the clauses of a long sentence
AddClause(st, clause, maxLength) ==
    IF Len(st.currentChunk) + Len(clause) <= maxLength
    THEN [st EXCEPT !.currentChunk = Joined(st.currentChunk, clause)]
    ELSE Bind(IF st.currentChunk # <<>> THEN Append(st.chunks, st.currentChunk)
              ELSE st.chunks,
              LAMBDA chunks :
                  IF Len(clause) > maxLength
                  THEN [chunks |-> chunks \o ForceSplit(clause, maxLength),
                        currentChunk |-> <<>>]
                  ELSE [chunks |-> chunks, currentChunk |-> clause])

\* the loop over the clauses
AddClauses(st, clauses, maxLength) ==
    LET upTo[n \in 0..Len(clauses)] ==
            IF n = 0 THEN st ELSE AddClause(upTo[n - 1], clauses[n], maxLength)
    IN  upTo[Len(clauses)]

\* one turn of the loop over the sentences
AddSentence(st, sentence, maxLength) ==
    IF Len(sentence) > maxLength
    THEN Bind(SplitAfter(sentence, {","}), LAMBDA clauseChunks :
             AddClauses(st, clauseChunks, maxLength))
    ELSE IF Len(st.currentChunk) + Len(sentence) <= maxLength
    THEN [st EXCEPT !.currentChunk = Joined(st.currentChunk, sentence)]
    ELSE [chunks |-> Append(st.chunks, st.currentChunk), currentChunk |-> sentence]

\* the loop over the sentences
AddSentences(sentences, maxLength) ==
    LET upTo[n \in 0..Len(sentences)] ==
            IF n = 0 THEN [chunks |-> <<>>, currentChunk |-> <<>>]
            ELSE AddSentence(upTo[n - 1], sentences[n], maxLength)
    IN  upTo[Len(sentences)]

splitTextIntoChunks(text, maxLength) ==
    IF Len(text) <= maxLength THEN <<text>>
    ELSE Bind(SplitAfter(text, {".", "!", "?"}), LAMBDA sentences :
             Bind(AddSentences(sentences, maxLength), LAMBDA st :
                 IF st.currentChunk # <<>> THEN Append(st.chunks, st.currentChunk)
                 ELSE st.chunks))

----------------------------------------------------------------------------
(* speechService.js: speak and stopSpeaking.  The state of the service and *)
(* of the synthesizer is a record sp of the fields speakCalls, synthQueue, *)
(* pendingEvents and handed.                                               *)

\* the maxLength speak passes to splitTextIntoChunks
SpeakMaxLength == 200

\* speakNextChunk in the closure of call c: onEnd after the last chunk, and
\* otherwise a new utterance passed to speechSynthesis.speak
speakNextChunk(sp, c) ==
    IF sp.speakCalls[c].utteranceIndex >= Len(sp.speakCalls[c].textChunks)
    THEN IF sp.speakCalls[c].onEnd
         THEN [sp EXCEPT !.speakCalls[c].onEndCalls = @ + 1]
         ELSE sp
    ELSE Bind([call |-> c, index |-> sp.speakCalls[c].utteranceIndex],
              LAMBDA utterance :
                  [sp EXCEPT !.synthQueue = Append(@, utterance),
                             !.handed = Append(@, utterance)])

\* the handlers with an onerror that logs the error and goes no further
OnEndOrErrorStopping(sp, c, kind) ==
    IF kind = "error"
    THEN [sp EXCEPT !.speakCalls[c].errorsLogged = @ + 1]
    ELSE speakNextChunk([sp EXCEPT !.speakCalls[c].utteranceIndex = @ + 1], c)

\* utterance.onend and utterance.onerror of an utterance of call c: onerror
\* logs the error, and both go on to the next chunk
OnEndOrError(sp, c, kind) ==
    speakNextChunk([sp EXCEPT !.speakCalls[c].utteranceIndex = @ + 1,
                              !.speakCalls[c].errorsLogged =
                                  IF kind = "error" THEN @ + 1 ELSE @], c)

\* speechSynthesis.cancel(): the queue is emptied; the utterance being
\* spoken fires the event of the kind given, or none, and so does every
\* utterance waiting behind it
stopSpeaking(sp, kind) ==
    [sp EXCEPT !.synthQueue = <<>>,
               !.pendingEvents =
                   @ \cup (IF kind = "none" THEN {}
                           ELSE {[call |-> sp.synthQueue[k].call,
                                  index |-> sp.synthQueue[k].index,
                                  kind |-> kind] : k \in DOMAIN sp.synthQueue})]

\* speak(text, onEnd), with the kind of event the cancellation fires
speak(sp, text, onEnd, kind) ==
    Bind(stopSpeaking(sp, kind), LAMBDA stopped :
        Bind([stopped EXCEPT !.speakCalls =
                 Append(@, [textChunks |-> splitTextIntoChunks(text, SpeakMaxLength),
                            utteranceIndex |-> 0, onEnd |-> onEnd, onEndCalls |-> 0,
                            errorsLogged |-> 0,
                            \* whether the call found the synthesizer speaking
                            interrupting |-> sp.synthQueue # <<>>])],
             LAMBDA called : speakNextChunk(called, Len(called.speakCalls))))

----------------------------------------------------------------------------
(* authService (aiService.js from line 326): the tokens, the interceptors. *)
(* The state is a record au of the fields storage, chain, settled and      *)
(* refreshCount.  A request of the chain is its url and its _retry flag;   *)
(* every request but the innermost awaits the refresh it has started.      *)

\* logout: both keys removed from localStorage
logout(au) ==
    [au EXCEPT !.storage = [tokens |-> NoTokens, user |-> FALSE, logouts |-> @.logouts + 1]]

\* the promise of request k of the chain rejects.  A request above the
\* outermost is a refresh request: refreshToken rethrows to the interceptor
\* that awaits it, whose catch calls logout and rejects its own request.
RECURSIVE RequestRejects(_, _)
RequestRejects(au, k) ==
    IF k <= 1
    THEN [au EXCEPT !.chain = <<>>, !.settled = [status |-> "rejected"]]
    ELSE RequestRejects(logout(au), k - 1)

\* the response interceptor on a 401 answer to the innermost request: a
\* request not yet retried is flagged and refreshToken is awaited, which
\* throws without a refresh token and posts a refresh request otherwise
OnUnauthorized(au) ==
    IF au.chain[Len(au.chain)]._retry
    THEN RequestRejects(au, Len(au.chain))
    ELSE IF ~(au.storage.tokens.present /\ au.storage.tokens.refresh_token)
    THEN RequestRejects(logout(au), Len(au.chain))
    ELSE [au EXCEPT !.chain = Append([@ EXCEPT ![Len(au.chain)]._retry = TRUE],
                                      [url |-> "refresh", _retry |-> FALSE]),
                    !.refreshCount = @ + 1]

\* the innermost request is answered 200.  A refresh answered with success
\* stores the new tokens, which expire at expiry, and the interceptor that
\* awaited it replays its request; without success refreshToken throws.
OnOk(au, success, expiry) ==
    IF au.chain[Len(au.chain)].url = "api" \/ (Len(au.chain) = 1 /\ success)
    THEN [au EXCEPT !.chain = <<>>, !.settled = [status |-> "resolved"],
                    !.storage.tokens =
                        IF au.chain[Len(au.chain)].url = "api" THEN @
                        ELSE [@ EXCEPT !.expiry_date = expiry]]
    ELSE IF success
    THEN [au EXCEPT !.chain = SubSeq(@, 1, Len(@) - 1),
                    !.storage.tokens.expiry_date = expiry]
    ELSE RequestRejects(au, Len(au.chain))

\* whether isAuthenticated finds the access token expired
IsExpired(tokens, date) == tokens.expiry_date # 0 /\ date >= tokens.expiry_date

\* isAuthenticated: what it returns, from the tokens stored and the clock.
\* refreshToken is an async function called without await: it never throws
\* into the try block, so the catch with logout is never entered.
isAuthenticated(au, date) ==
    IF ~au.storage.tokens.present THEN FALSE
    ELSE IF IsExpired(au.storage.tokens, date) THEN TRUE
    ELSE TRUE

\* the state after isAuthenticated: an expired token starts refreshToken,
\* whose promise nobody awaits
AfterIsAuthenticated(au, date) ==
    IF ~au.storage.tokens.present \/ ~IsExpired(au.storage.tokens, date) THEN au
    ELSE IF ~au.storage.tokens.refresh_token
    THEN [au EXCEPT !.settled = [status |-> "rejected"]]
    ELSE [au EXCEPT !.chain = <<[url |-> "refresh", _retry |-> FALSE]>>,
                    !.settled = [status |-> "pending"],
                    !.refreshCount = @ + 1]

----------------------------------------------------------------------------
(* SettingsPanel.js: the priority contacts.  The state is a record pn of   *)
(* the fields settings and newContact.                                     *)

\* onSettingsChange({ ...settings, [name]: value })
handleChange(pn, name, value) ==
    [pn EXCEPT !.settings = [@ EXCEPT ![name] = value]]

\* Array.prototype.includes
Includes(a, x) == \E k \in DOMAIN a : a[k] = x

\* addPriorityContact without the test of includes
addPriorityContactAgain(pn) ==
    IF pn.newContact # ""
    THEN [handleChange(pn, "priorityContacts",
                       Append(pn.settings.priorityContacts, pn.newContact))
             EXCEPT !.newContact = ""]
    ELSE pn

addPriorityContact(pn) ==
    IF pn.newContact # "" /\ ~Includes(pn.settings.priorityContacts, pn.newContact)
    THEN [handleChange(pn, "priorityContacts",
                       Append(pn.settings.priorityContacts, pn.newContact))
             EXCEPT !.newContact = ""]
    ELSE pn

removePriorityContact(pn, contact) ==
    handleChange(pn, "priorityContacts",
                 Filter(pn.settings.priorityContacts, LAMBDA c : c # contact))

----------------------------------------------------------------------------
(* Calls of the utilities of aiService.js and speechService.js *)

\* the longest duration passed to calculateDuration, in minutes
MaxMinutes == 125

\* the moments events start at
DurationStarts == {At(0, 9, 0), At(0, 23, 30)}

\* the seconds beyond the full minutes, in milliseconds: none, just under
\* half a minute, half a minute
OddMs == {0, 29999, 30000}

\* the lengths of the intervals, in milliseconds, forwards and backwards
LengthsMs == {sign * (m * MsPerMinute + ms) : sign \in {1, -1}, m \in 0..MaxMinutes, ms \in OddMs}

\* the longest text passed to splitTextIntoChunks, and the largest maxLength
MaxText == 5
MaxChunk == 3

\* the characters of the texts: a letter, the end of a sentence, the end of a
\* clause, white space
TextChars == {"a", ".", ",", " "}
ShortTexts == UNION {[1..n -> TextChars] : n \in 0..MaxText}

\* what a call of a function that returns yields
Returned(value) == [status |-> "returned", value |-> value]

InitUtil ==
    /\ IdleCommand
    /\ AIIdle
    /\ AppMounted
    /\ ServicesIdle
    /\ now = At(0, 8, 0)

CallCalculateDuration ==
    /\ aiCall.fn = "none"
    /\ \E start \in DurationStarts, length \in LengthsMs :
          aiCall' = [fn |-> "calculateDuration", start |-> start, end |-> start + length,
                     out |-> Returned(calculateDuration(start, start + length))]
    /\ UNCHANGED <<cmdVars, aiAgain, appVars, svcVars, now>>

\* calendars of one event of today that ends before, when or after it starts
OneEventCalendars ==
    {<<MkEvent(1, At(0, 10, 0), At(0, 10, 0) + length, "medium")>> :
        length \in {-30 * MsPerMinute, 0, 30 * MsPerMinute}}

CallGenerateCalendarSummary ==
    /\ aiCall.fn = "none"
    /\ \E events \in OneEventCalendars, s \in SummarySettings :
          aiCall' = [fn |-> "generateCalendarSummary", events |-> events, settings |-> s,
                     out |-> Returned(generateCalendarSummary(events, s))]
    /\ UNCHANGED <<cmdVars, aiAgain, appVars, svcVars, now>>

\* formatTime is called with a moment of hour h and minute m of a day
CallFormatTime ==
    /\ aiCall.fn = "none"
    /\ \E d \in {0, 1}, h \in 0..(HoursPerDay - 1), m \in 0..(MinutesPerHour - 1) :
          aiCall' = [fn |-> "formatTime", date |-> At(d, h, m), h |-> h, m |-> m,
                     out |-> Returned(formatTime(At(d, h, m)))]
    /\ UNCHANGED <<cmdVars, aiAgain, appVars, svcVars, now>>

CallSplitTextIntoChunks ==
    /\ aiCall.fn = "none"
    /\ \E text \in ShortTexts, maxLength \in 1..MaxChunk :
          aiCall' = [fn |-> "splitTextIntoChunks", text |-> text, maxLength |-> maxLength,
                     out |-> Returned(splitTextIntoChunks(text, maxLength))]
    /\ UNCHANGED <<cmdVars, aiAgain, appVars, svcVars, now>>

NextUtil ==
    \/ CallSplitTextIntoChunks
    \/ CallCalculateDuration
    \/ CallFormatTime
    \/ CallGenerateCalendarSummary

SpecUtil == InitUtil /\ [][NextUtil]_vars

----------------------------------------------------------------------------
(* Calls of speak, and the events of the synthesizer *)

\* the most calls of speak, and the most sentences of a text
MaxSpeakCalls == 2
MaxSentences == 3

\* a text of n sentences of 150 characters, which make n chunks
LongText(letter, n) ==
    [k \in 1..(n * 151 - 1) |-> IF k % 151 = 0 THEN " " ELSE IF k % 151 = 150 THEN "." ELSE letter]

\* the texts of the calls: the first call speaks of a, the second of b
SpeechTexts(c) == {LongText(IF c = 1 THEN "a" ELSE "b", n) : n \in 1..MaxSentences}

\* the service and the synthesizer as one record
Speech ==
    [speakCalls |-> speakCalls, synthQueue |-> synthQueue,
     pendingEvents |-> pendingEvents, handed |-> handed]

\* the variables take the fields of sp
SpeechBecomes(sp) ==
    /\ speakCalls' = sp.speakCalls
    /\ synthQueue' = sp.synthQueue
    /\ pendingEvents' = sp.pendingEvents
    /\ handed' = sp.handed

InitSpeech ==
    /\ IdleCommand
    /\ AIIdle
    /\ AppMounted
    /\ ServicesIdle
    /\ now = At(0, 8, 0)

\* speak is called; the synthesizer answers the cancellation with an end
\* event, an error event or no event, as the browser chooses
CallSpeak ==
    /\ Len(speakCalls) < MaxSpeakCalls
    /\ \E text \in SpeechTexts(Len(speakCalls) + 1), onEnd \in BOOLEAN,
          kind \in {"end", "error", "none"} :
          SpeechBecomes(speak(Speech, text, onEnd, kind))
    /\ UNCHANGED <<cmdVars, aiVars, appVars, authVars, panelVars, now>>

\* the utterance being spoken ends, and its onend runs
UtteranceEnds ==
    /\ synthQueue # <<>>
    /\ SpeechBecomes(OnEndOrError([Speech EXCEPT !.synthQueue = Tail(@)],
                                  Head(synthQueue).call, "end"))
    /\ UNCHANGED <<cmdVars, aiVars, appVars, authVars, panelVars, now>>

\* the utterance being spoken fails, and its onerror runs
UtteranceFails ==
    /\ synthQueue # <<>>
    /\ SpeechBecomes(OnEndOrError([Speech EXCEPT !.synthQueue = Tail(@)],
                                  Head(synthQueue).call, "error"))
    /\ UNCHANGED <<cmdVars, aiVars, appVars, authVars, panelVars, now>>

\* the event of a cancelled utterance is dispatched to its handler
CancelledUtteranceFires ==
    /\ \E event \in pendingEvents :
          SpeechBecomes(OnEndOrError([Speech EXCEPT !.pendingEvents = @ \ {event}],
                                     event.call, event.kind))
    /\ UNCHANGED <<cmdVars, aiVars, appVars, authVars, panelVars, now>>

NextSpeech ==
    \/ CallSpeak
    \/ UtteranceEnds
    \/ UtteranceFails
    \/ CancelledUtteranceFires

SpecSpeech == InitSpeech /\ [][NextSpeech]_vars

\* every utterance the synthesizer holds eventually ends or fails
SpecSpeechFair == SpecSpeech /\ WF_vars(UtteranceEnds \/ UtteranceFails)

----------------------------------------------------------------------------
(* Requests through the interceptors, and calls of isAuthenticated *)

\* the refresh requests of one chain that are followed
MaxRefreshes == 3

\* what localStorage holds when the page is loaded
StoredTokens ==
    {NoTokens} \cup {[present |-> TRUE, refresh_token |-> r, expiry_date |-> e] :
                        r \in BOOLEAN, e \in {0, At(0, 7, 0), At(0, 10, 0)}}

Auth ==
    [storage |-> storage, chain |-> chain, settled |-> settled, refreshCount |-> refreshCount]

AuthBecomes(au) ==
    /\ storage' = au.storage
    /\ chain' = au.chain
    /\ settled' = au.settled
    /\ refreshCount' = au.refreshCount

InitAuth ==
    /\ IdleCommand
    /\ AIIdle
    /\ AppMounted
    /\ SpeechIdle
    /\ PanelIdle
    /\ AuthIdle
    /\ \E tokens \in StoredTokens :
          storage = [tokens |-> tokens, user |-> tokens.present, logouts |-> 0]
    /\ now = At(0, 8, 0)

\* a request is sent with axios
SendRequest ==
    /\ settled.status = "none"
    /\ chain' = <<[url |-> "api", _retry |-> FALSE]>>
    /\ settled' = [status |-> "pending"]
    /\ UNCHANGED <<cmdVars, aiVars, appVars, speechVars, panelVars, storage, refreshCount, authCheck, now>>

\* the server answers the innermost request with 401
ServerAnswersUnauthorized ==
    /\ chain # <<>>
    /\ chain[Len(chain)]._retry \/ refreshCount < MaxRefreshes
    /\ AuthBecomes(OnUnauthorized(Auth))
    /\ UNCHANGED <<cmdVars, aiVars, appVars, speechVars, panelVars, authCheck, now>>

\* the server answers the innermost request with 200
ServerAnswersOk ==
    /\ chain # <<>>
    /\ \E success \in BOOLEAN : AuthBecomes(OnOk(Auth, success, now + MsPerDay))
    /\ UNCHANGED <<cmdVars, aiVars, appVars, speechVars, panelVars, authCheck, now>>

\* the innermost request fails otherwise: another status, or no answer
RequestFails ==
    /\ chain # <<>>
    /\ AuthBecomes(RequestRejects(Auth, Len(chain)))
    /\ UNCHANGED <<cmdVars, aiVars, appVars, speechVars, panelVars, authCheck, now>>

CallIsAuthenticated ==
    /\ authCheck.status = "none"
    /\ settled.status = "none"
    /\ authCheck' = [status |-> "returned", value |-> isAuthenticated(Auth, now),
                     tokens |-> storage.tokens, at |-> now]
    /\ AuthBecomes(AfterIsAuthenticated(Auth, now))
    /\ UNCHANGED <<cmdVars, aiVars, appVars, speechVars, panelVars, now>>

\* time passes
AuthTick ==
    /\ \E t \in NowValues : t > now /\ now' = t
    /\ UNCHANGED <<cmdVars, aiVars, appVars, svcVars>>

NextAuth ==
    \/ SendRequest
    \/ ServerAnswersUnauthorized
    \/ ServerAnswersOk
    \/ RequestFails
    \/ CallIsAuthenticated
    \/ AuthTick

SpecAuth == InitAuth /\ [][NextAuth]_vars

----------------------------------------------------------------------------
(* The settings panel: the user types, adds, removes and edits *)

\* the state App.js gives to settings
AppSettings ==
    [summaryLength |-> "medium", speechRate |-> 1, voiceType |-> "default",
     maxChunkTime |-> 60, priorityContacts |-> <<>>, integratedCalendars |-> <<>>,
     integratedEmails |-> <<>>, reminderDefaultTime |-> 60]

\* what the user types into the contact field
ContactInputs == {"", " ", "ann@example.com", "bob@example.com"}

\* the other controls of the panel
OtherEdits ==
    {<<"summaryLength", l>> : l \in {"concise", "medium"}}
    \cup {<<"speechRate", r>> : r \in {1, 2}}
    \cup {<<"reminderDefaultTime", t>> : t \in {15, 60}}

Panel == [settings |-> settings, newContact |-> newContact]

PanelBecomes(pn, op) ==
    /\ settings' = pn.settings
    /\ newContact' = pn.newContact
    /\ panelOp' = op
    /\ UNCHANGED <<command, pc, parsedCommand, fetched, calls, result>>
    /\ UNCHANGED <<aiVars, appVars, speechVars, authVars, now>>

InitPanel ==
    /\ command = <<>>
    /\ pc = "idle"
    /\ parsedCommand = [type |-> "none"]
    /\ fetched = Pending
    /\ calls = <<>>
    /\ result = Pending
    /\ AIIdle
    /\ AppMounted
    /\ ServicesIdle
    /\ settings = AppSettings
    /\ now = At(0, 8, 0)

\* the user types into the contact field
TypeContact ==
    \E text \in ContactInputs :
        /\ text # newContact
        /\ PanelBecomes([Panel EXCEPT !.newContact = text], [op |-> "type"])

\* the Add button
ClickAdd ==
    \E pn \in {addPriorityContact(Panel)} :
        PanelBecomes(pn, [op |-> "add", contact |-> newContact, before |-> settings])

\* the delete icon of the chip of a contact
DeleteChip ==
    \E k \in DOMAIN settings.priorityContacts :
        PanelBecomes(removePriorityContact(Panel, settings.priorityContacts[k]),
                     [op |-> "remove", contact |-> settings.priorityContacts[k],
                      before |-> settings])

\* another control of the panel
EditSetting ==
    \E e \in OtherEdits :
        /\ settings[e[1]] # e[2]
        /\ PanelBecomes(handleChange(Panel, e[1], e[2]), [op |-> "edit"])

NextPanel ==
    \/ TypeContact
    \/ ClickAdd
    \/ DeleteChip
    \/ EditSetting

SpecPanel == InitPanel /\ [][NextPanel]_vars

----------------------------------------------------------------------------
(* The App component: the microphone button and handleCommand *)

\* the most invocations of handleCommand in a run
MaxCommands == 2

WakeWord == <<"H", "e", "y", " ", "J", "a", "r", "v", "i", "s">>

\* what the recognizer may hear
HeardTranscripts ==
    { Kw("hey jarvis") \o <<" ">> \o Vocab[1],
      WakeWord \o <<",", " ">> \o Vocab[2],
      Kw("hey jarvis") \o <<" ">> \o Vocab[3],
      Vocab[1] }

\* command.replace(/hey jarvis/i, ''): the first occurrence removed
RemoveWakeWord(cmd) ==
    Bind(IndexesOf(toLowerCase(cmd), Kw("hey jarvis")), LAMBDA at :
        IF at = {} THEN cmd
        ELSE Bind(Min(at), LAMBDA i :
                SubSeq(cmd, 1, i - 1) \o SubSeq(cmd, i + Len(Kw("hey jarvis")), Len(cmd))))

ErrorMessage == <<"Sorry, I encountered an error processing your request.">>

\* an invocation of handleCommand whose processCommand has returned without
\* waiting for a timer: its continuation runs before any other event
MicrotasksPending == \E k \in DOMAIN inFlight : ~inFlight[k].timer

InitApp ==
    /\ IdleCommand
    /\ AIIdle
    /\ AppMounted
    /\ ServicesIdle
    /\ now = At(0, 8, 0)

\* recognition.onresult
OnResult ==
    /\ ~MicrotasksPending
    /\ isListening
    /\ \E heard \in HeardTranscripts : transcript' = heard
    /\ UNCHANGED <<cmdVars, aiVars, svcVars, now,
                   isListening, response, isLoading, inFlight, issued, shown, spoken>>

\* handleCommand up to its await: processCommand parses the command and
\* either starts a fetch, settled by a timer, or returns
handleCommand(cmd) ==
    /\ isLoading' = TRUE
    /\ issued' = issued + 1
    /\ \E parsed \in {parseCommand(trim(RemoveWakeWord(cmd)))} :
          inFlight' = Append(inFlight,
                             [id |-> issued + 1, parsed |-> parsed, settings |-> settings,
                              timer |-> parsed.type \in {"READ_EMAILS", "READ_AGENDA"}])

\* a click on the microphone button
ToggleListening ==
    /\ ~MicrotasksPending
    /\ IF isListening
       THEN /\ isListening' = FALSE
            /\ IF transcript # <<>> /\ includes(toLowerCase(transcript), Kw("hey jarvis"))
               THEN issued < MaxCommands /\ handleCommand(transcript)
               ELSE UNCHANGED <<isLoading, inFlight, issued>>
            /\ UNCHANGED transcript
       ELSE /\ isListening' = TRUE
            /\ transcript' = <<>>
            /\ UNCHANGED <<isLoading, inFlight, issued>>
    /\ UNCHANGED <<cmdVars, aiVars, svcVars, now, response, shown, spoken>>

\* handleCommand from its await on: invocation k goes on with the settled
\* promise of processCommand
Continue(k, promise) ==
    /\ \E message \in {IF promise.status = "resolved" THEN promise.value.message
                       ELSE ErrorMessage} :
          /\ response' = message
          /\ spoken' = message
    /\ shown' = inFlight[k].id
    /\ isLoading' = FALSE
    /\ inFlight' = SubSeq(inFlight, 1, k - 1) \o SubSeq(inFlight, k + 1, Len(inFlight))
    /\ UNCHANGED <<cmdVars, aiVars, svcVars, now, isListening, transcript, issued>>

\* the continuation of an invocation whose processCommand waited for no timer
CommandReturns ==
    \E k \in DOMAIN inFlight :
        /\ ~inFlight[k].timer
        /\ Continue(k, DispatchSync(inFlight[k].parsed, inFlight[k].settings))

\* the timer of the oldest fetch fires (every fetch takes the same time) and
\* the handler that awaited it goes on
FetchSettles ==
    /\ ~MicrotasksPending
    /\ \E k \in DOMAIN inFlight :
          /\ inFlight[k].timer
          /\ \A j \in 1..(k - 1) : ~inFlight[j].timer
          /\ IF inFlight[k].parsed.type = "READ_EMAILS"
             THEN \E outcome \in {Resolved(inbox) : inbox \in FetchableInboxes}
                                    \cup {Rejected(FetchError)} :
                      Continue(k, handleReadEmails(outcome, inFlight[k].settings))
             ELSE \E outcome \in {Resolved(events) : events \in FetchableCalendars}
                                    \cup {Rejected(FetchError)} :
                      Continue(k, handleReadAgenda(outcome, inFlight[k].settings))

NextApp ==
    \/ OnResult
    \/ ToggleListening
    \/ CommandReturns
    \/ FetchSettles

SpecApp == InitApp /\ [][NextApp]_vars

----------------------------------------------------------------------------
(* Claims about the intent parser and the dispatcher *)

\* the command as parseCommand matches it
Lowered == trim(toLowerCase(command))

\* the intents in the order of the rules
RuleOrder ==
    <<"READ_EMAILS", "READ_AGENDA", "IGNORE", "RESPOND", "RESPOND_LATER",
      "SET_IMPORTANT", "CALENDAR_RESPONSE", "SCHEDULE", "REPRIORITIZE", "UNKNOWN">>

\* the trigger condition of rule r on the utterance cmd
Trigger(r, cmd) ==
    CASE r = 1 -> \E k \in {"read me my emails", "read my emails"} : includes(cmd, Kw(k))
      [] r = 2 -> \E k \in {"tell me what i have to do today", "what do i have to do today",
                            "read my agenda", "read my calendar"} : includes(cmd, Kw(k))
      [] r = 3 -> includes(cmd, Kw("ignore"))
      [] r = 4 -> includes(cmd, Kw("respond")) /\ ~includes(cmd, Kw("respond later"))
      [] r = 5 -> includes(cmd, Kw("respond later"))
      [] r = 6 -> /\ includes(cmd, Kw("mark"))
                  /\ \E k \in {"important", "not important"} : includes(cmd, Kw(k))
      [] r = 7 -> \E k \in {"accept", "decline", "maybe", "find me a new time"} :
                      includes(cmd, Kw(k))
      [] r = 8 -> includes(cmd, Kw("schedule"))
      [] r = 9 -> includes(cmd, Kw("reprioritize"))
      [] r = 10 -> TRUE

Parsed == pc # "idle"

\* C1: the intent parseCommand returns is that of the first rule, in the
\* fixed order, whose trigger the lower-cased, trimmed utterance satisfies;
\* an utterance containing "read me my emails" yields READ_EMAILS, and one
\* containing "ignore" and "schedule" is never parsed as SCHEDULE: it yields
\* IGNORE unless one of the two rules before IGNORE matches
C1_FirstMatchingRuleWins ==
    Parsed =>
        \E cmd \in {Lowered} :
            /\ parsedCommand.type = RuleOrder[Min({r \in 1..10 : Trigger(r, cmd)})]
            /\ includes(cmd, Kw("read me my emails")) => parsedCommand.type = "READ_EMAILS"
            /\ includes(cmd, Kw("ignore")) /\ includes(cmd, Kw("schedule"))
                  => parsedCommand.type \in {"IGNORE", "READ_EMAILS", "READ_AGENDA"}
            /\ includes(cmd, Kw("ignore")) /\ includes(cmd, Kw("schedule"))
               /\ ~Trigger(1, cmd) /\ ~Trigger(2, cmd)
                  => parsedCommand.type = "IGNORE"

\* an utterance matching the IGNORE rule and the SCHEDULE rule has been parsed
C1_Witness ==
    /\ Parsed
    /\ parsedCommand.type = "IGNORE"
    /\ includes(Lowered, Kw("ignore"))
    /\ includes(Lowered, Kw("schedule"))

Settled == pc = "settled"

\* C2: when the fetch of READ_EMAILS or READ_AGENDA rejects, processCommand
\* resolves to the fixed apology of that intent; it neither rejects nor
\* answers the error
C2_FetchFailureYieldsApology ==
    Settled /\ fetched.status = "rejected" =>
        /\ result.status = "resolved"
        /\ result.value.message # <<fetched.error>>
        /\ parsedCommand.type = "READ_EMAILS" => result.value.message = EmailsApology
        /\ parsedCommand.type = "READ_AGENDA" =>
              result.value.message =
                 <<"I'm sorry, I couldn't read your agenda at this time. Please try again later.">>

\* the calendar fetch of a READ_AGENDA command has rejected
C2_Witness ==
    /\ Settled
    /\ parsedCommand.type = "READ_AGENDA"
    /\ fetched = Rejected(FetchError)
    /\ result.status = "resolved"

\* a message is a string
IsMessage(m) == m \in Seq(STRING)

\* C3: every call of processCommand eventually resolves to an object with a
\* string message, whatever the intent, once the awaited fetch has settled;
\* no call rejects or stays pending
C3_EveryCallResolves ==
    <>[](/\ Settled
         /\ parsedCommand.type \in COMMAND_TYPES
         /\ result.status = "resolved"
         /\ IsMessage(result.value.message))

\* a call whose handler awaited a fetch that rejected has resolved
C3_Witness ==
    /\ Settled
    /\ parsedCommand.type = "READ_EMAILS"
    /\ fetched.status = "rejected"
    /\ result.status = "resolved"
    /\ IsMessage(result.value.message)

\* C4: in READ_EMAILS and READ_AGENDA the fetched items are ranked by
\* prioritizeItems after the fetch and before the summarizer, which receives
\* the ranked sequence
C4_RankBetweenFetchAndSummarize ==
    \A k \in DOMAIN calls :
        calls[k].fn = "summarizeWithAI" =>
            /\ k = 3
            /\ calls[1].fn \in {"fetchEmails", "fetchCalendarEvents"}
            /\ calls[2].fn = "prioritizeItems"
            /\ calls[k].data = prioritizeItems(fetched.value, settings)

\* C5 as stated: in CALENDAR_RESPONSE the sub-keywords take precedence
\* decline > maybe > "find me a new time" > default accept
C5_DeclineFirst ==
    Parsed /\ parsedCommand.type = "CALENDAR_RESPONSE" =>
        \E cmd \in {Lowered} :
            parsedCommand.payload.response =
                IF includes(cmd, Kw("decline")) THEN "decline"
                ELSE IF includes(cmd, Kw("maybe")) THEN "maybe"
                ELSE IF includes(cmd, Kw("find me a new time")) THEN "reschedule"
                ELSE "accept"

\* C5, amended: in CALENDAR_RESPONSE the sub-keywords take precedence
\* "find me a new time" > maybe > decline > default accept: an utterance
\* with the reschedule phrase yields reschedule whatever else it contains,
\* and one with "maybe" and "decline" but not the phrase yields maybe
C5_RescheduleFirst ==
    Parsed /\ parsedCommand.type = "CALENDAR_RESPONSE" =>
        \E cmd \in {Lowered} :
            parsedCommand.payload.response =
                IF includes(cmd, Kw("find me a new time")) THEN "reschedule"
                ELSE IF includes(cmd, Kw("maybe")) THEN "maybe"
                ELSE IF includes(cmd, Kw("decline")) THEN "decline"
                ELSE "accept"

\* an utterance with "decline" and "maybe" has been parsed
C5_Witness ==
    /\ Parsed
    /\ parsedCommand.type = "CALENDAR_RESPONSE"
    /\ includes(Lowered, Kw("decline"))
    /\ includes(Lowered, Kw("maybe"))
    /\ parsedCommand.payload.response = "maybe"

\* C6: "schedule W at T with P in L" yields what = W, when = T,
\* withWhom = P, where = L
C6_ScheduleEntitiesIndependent ==
    Parsed =>
        \A w \in Whats, t \in Whens, p \in Whos, l \in Wheres :
            command = ScheduleForm(w, t, p, l) =>
                parsedCommand =
                    [type |-> "SCHEDULE",
                     payload |-> [what |-> w, when |-> t, withWhom |-> p, where |-> l]]

----------------------------------------------------------------------------
(* Claims about ranking, conflicts and the summarizers *)

\* the sender of item x is one of the priority contacts of settings s
FromPriorityContact(x, s) ==
    x.from # NoSender /\ x.from.email \in {s.priorityContacts[k] : k \in DOMAIN s.priorityContacts}

\* the three keys of an item, smaller first
RankKeys(x, s) ==
    <<IF FromPriorityContact(x, s) THEN 0 ELSE 1, IF x.isImportant THEN 0 ELSE 1, -x.timestamp>>

LexLess(a, b) ==
    \/ a[1] < b[1]
    \/ a[1] = b[1] /\ a[2] < b[2]
    \/ a[1] = b[1] /\ a[2] = b[2] /\ a[3] < b[3]

\* C7: prioritizeItems returns a permutation of its input ordered by
\* priority contact first, then important first, then the more recent first,
\* and items equal on the three keys keep their input order
C7_RankIsStableThreeKeySort ==
    aiCall.fn = "prioritizeItems" =>
        \E items \in {aiCall.items} : \E out \in {aiCall.out} : \E s \in {aiCall.settings} :
            /\ Len(out) = Len(items)
            /\ {out[k].id : k \in DOMAIN out} = DOMAIN items
            /\ \A k \in DOMAIN out : out[k] = items[out[k].id]
            /\ \A i, j \in DOMAIN out :
                  i < j =>
                     /\ ~LexLess(RankKeys(out[j], s), RankKeys(out[i], s))
                     /\ RankKeys(out[i], s) = RankKeys(out[j], s) => out[i].id < out[j].id

\* three items have been ranked: the last one, of a priority contact, has
\* come first, and the other two, equal on the three keys, kept their order
C7_Witness ==
    /\ aiCall.fn = "prioritizeItems"
    /\ Len(aiCall.items) = 3
    /\ aiCall.out[1].id = 3
    /\ FromPriorityContact(aiCall.items[3], aiCall.settings)
    /\ aiCall.items[1].isImportant
    /\ RankKeys(aiCall.items[1], aiCall.settings) = RankKeys(aiCall.items[2], aiCall.settings)
    /\ aiCall.out[2].id = 1

\* the pair of events i, j of the argument is among the reported conflicts
Reported(i, j) ==
    \E k \in DOMAIN aiCall.out :
        aiCall.out[k].event1 = aiCall.events[i] /\ aiCall.out[k].event2 = aiCall.events[j]

\* the half-open intervals [start, end) of a and b have a moment in common
HalfOpenIntersect(a, b) == Max({a.start, b.start}) < Min({a.end, b.end})

\* a is of zero length and lies strictly inside b
ZeroLengthInside(a, b) == a.start = a.end /\ b.start < a.start /\ a.start < b.end

\* every reported conflict carries the later start and the earlier end
OverlapBounds ==
    \A k \in DOMAIN aiCall.out :
        \E c \in {aiCall.out[k]} :
            /\ c.overlapStart = Max({c.event1.start, c.event2.start})
            /\ c.overlapEnd = Min({c.event1.end, c.event2.end})

\* the events 9:00-10:00 and 9:30-10:30 give one conflict, 9:30-10:00
NineToTenExample ==
    /\ Len(aiCall.events) = 2
    /\ <<aiCall.events[1].start, aiCall.events[1].end>> = <<At(0, 9, 0), At(0, 10, 0)>>
    /\ <<aiCall.events[2].start, aiCall.events[2].end>> = <<At(0, 9, 30), At(0, 10, 30)>>
    => /\ Len(aiCall.out) = 1
       /\ aiCall.out[1].overlapStart = At(0, 9, 30)
       /\ aiCall.out[1].overlapEnd = At(0, 10, 0)

\* C8 as stated: findScheduleConflicts reports a pair of events if and only
\* if their half-open intervals intersect, with overlapStart the later start
\* and overlapEnd the earlier end; touching and zero-length intervals give no
\* conflict and every reported conflict has overlapStart < overlapEnd
C8_HalfOpenIntersection ==
    aiCall.fn = "findScheduleConflicts" =>
        /\ \A i, j \in DOMAIN aiCall.events :
              i < j => (Reported(i, j) <=> HalfOpenIntersect(aiCall.events[i], aiCall.events[j]))
        /\ OverlapBounds
        /\ \A k \in DOMAIN aiCall.out : aiCall.out[k].overlapStart < aiCall.out[k].overlapEnd
        /\ NineToTenExample

\* C8, amended: for events that end no earlier than they start,
\* findScheduleConflicts reports a pair if and only if their half-open
\* intervals intersect or one of the two is of zero length and lies strictly
\* inside the other; overlapStart is the later start and overlapEnd the
\* earlier end, so overlapStart <= overlapEnd, with equality exactly for a
\* zero-length event; intervals that merely touch give no conflict
C8_IntersectionOrPointInside ==
    aiCall.fn = "findScheduleConflicts" =>
        /\ \A i, j \in DOMAIN aiCall.events :
              i < j =>
                 \E a \in {aiCall.events[i]} : \E b \in {aiCall.events[j]} :
                    /\ Reported(i, j) <=>
                          \/ HalfOpenIntersect(a, b)
                          \/ ZeroLengthInside(a, b)
                          \/ ZeroLengthInside(b, a)
                    /\ a.end = b.start \/ b.end = a.start => ~Reported(i, j)
        /\ OverlapBounds
        /\ \A k \in DOMAIN aiCall.out :
              \E c \in {aiCall.out[k]} :
                 /\ c.overlapStart <= c.overlapEnd
                 /\ c.overlapStart = c.overlapEnd
                       <=> c.event1.start = c.event1.end \/ c.event2.start = c.event2.end
        /\ NineToTenExample

\* of three events the first two touch and are not reported, and the third,
\* of zero length inside the first, is reported with it
C8_Witness ==
    /\ aiCall.fn = "findScheduleConflicts"
    /\ Len(aiCall.events) = 3
    /\ aiCall.events[1].end = aiCall.events[2].start
    /\ aiCall.events[1].start < aiCall.events[1].end
    /\ aiCall.events[2].start < aiCall.events[2].end
    /\ ZeroLengthInside(aiCall.events[3], aiCall.events[1])
    /\ ~Reported(1, 2)
    /\ Reported(1, 3)
    /\ Len(aiCall.out) = 1
    /\ aiCall.out[1].overlapStart = aiCall.out[1].overlapEnd

\* C10 as stated: two calls of a summarizer with identical items and
\* identical preferences return identical reports, whenever they are made
C10_SameInputsSameReport ==
    aiAgain.done => aiAgain.out = aiCall.out

\* the day a moment falls on
DayOf(t) == t \div MsPerDay

\* C10, amended: the email summarizer is a function of (items, preferences);
\* the calendar summarizer is a function of (items, preferences, the day of
\* the call): two calls with identical items and preferences return
\* identical reports when they are made on the same day
C10_SameInputsSameDaySameReport ==
    aiAgain.done /\ (aiCall.type = "emails" \/ DayOf(aiCall.at) = DayOf(aiAgain.at))
        => aiAgain.out = aiCall.out

\* the calendar summarizer has been called twice with events of the day, at
\* two moments of that day with an event starting in between
C10_Witness ==
    /\ aiAgain.done
    /\ aiCall.type = "calendar"
    /\ aiCall.at < aiAgain.at
    /\ DayOf(aiCall.at) = DayOf(aiAgain.at)
    /\ \E k \in DOMAIN aiCall.data :
          aiCall.at < aiCall.data[k].start /\ aiCall.data[k].start < aiAgain.at
    /\ aiAgain.out = aiCall.out

----------------------------------------------------------------------------
(* Claims about the App component *)

\* C9: at no moment are two invocations of processCommand in flight, and
\* the response shown is that of the most recently issued command
C9_OneCommandAtATime ==
    /\ Len(inFlight) <= 1
    /\ ~isLoading /\ shown # 0 => shown = issued

----------------------------------------------------------------------------
(* Claims about the summaries *)

\* C11: once prioritizeItems, generateEmailSummary or generateCalendarSummary
\* has returned, the caller's array holds the same elements in the same
\* order as before the call, with their fields unchanged
C11_InputNotMutated ==
    /\ aiCall.fn = "prioritizeItems" => aiCall.after = aiCall.items
    /\ aiCall.fn = "summarizeWithAI" => aiCall.after = aiCall.data

\* prioritizeItems has returned another order than that of its argument
C11_Witness ==
    /\ aiCall.fn = "prioritizeItems"
    /\ aiCall.out # aiCall.items
    /\ aiCall.after = aiCall.items

\* the positions of the piece mark in the text out, in ascending order
PositionsOf(out, mark) ==
    Bind({k \in DOMAIN out : out[k] = mark}, LAMBDA at :
        [i \in 1..Cardinality(at) |-> CHOOSE k \in at : Cardinality({j \in at : j <= k}) = i])

\* the subjects of the narrated emails, in the order of the summary
NarratedSubjects(out) ==
    Bind(PositionsOf(out, ", subject: "), LAMBDA at : [i \in DOMAIN at |-> out[at[i] + 1]])

\* the email with the subject, among the emails supplied
EmailWith(emails, subject) == CHOOSE e \in {emails[k] : k \in DOMAIN emails} : e.subject = subject

\* email a comes before email b by importance, then recency
RanksBefore(a, b) ==
    \/ a.isImportant /\ ~b.isImportant
    \/ a.isImportant = b.isImportant /\ a.timestamp > b.timestamp

EmailSummaryMade == aiCall.fn = "summarizeWithAI" /\ aiCall.type = "emails"

\* C12: the email summary narrates min(n, 3) emails under concise,
\* min(n, 5) under medium, min(n, 7) under detailed and all n under
\* everything; under the first three no email left out ranks before a
\* narrated one by (important first, then more recent first); of 10 emails
\* concise narrates exactly 3
C12_NarratedCount ==
    EmailSummaryMade =>
        \E narrated \in {NarratedSubjects(aiCall.out)} :
        \E n \in {Len(aiCall.data)} :
        \E length \in {aiCall.settings.summaryLength} :
            /\ Len(narrated) =
                  CASE length = "concise" -> Min({n, 3})
                    [] length = "medium" -> Min({n, 5})
                    [] length = "detailed" -> Min({n, 7})
                    [] length = "everything" -> n
            /\ \A i \in DOMAIN narrated : \E k \in DOMAIN aiCall.data :
                  aiCall.data[k].subject = narrated[i]
            /\ \A i, j \in DOMAIN narrated : i # j => narrated[i] # narrated[j]
            /\ length # "everything" =>
                  \A k \in DOMAIN aiCall.data :
                     (\A i \in DOMAIN narrated : narrated[i] # aiCall.data[k].subject) =>
                        \A i \in DOMAIN narrated :
                           ~RanksBefore(aiCall.data[k], EmailWith(aiCall.data, narrated[i]))
            /\ n = 10 /\ length = "concise" => Len(narrated) = 3

\* of 10 emails, the important ones last in arrival, concise has narrated 3,
\* none of them among the first three supplied
C12_Witness ==
    /\ EmailSummaryMade
    /\ Len(aiCall.data) = 10
    /\ aiCall.settings.summaryLength = "concise"
    /\ Len(NarratedSubjects(aiCall.out)) = 3
    /\ \A i \in 1..3 : \A k \in 1..3 : NarratedSubjects(aiCall.out)[i] # aiCall.data[k].subject

\* the narrated emails are in the order of importance, then recency
NarratedInRankOrder ==
    \E narrated \in {NarratedSubjects(aiCall.out)} :
        \A i, j \in DOMAIN narrated :
            i < j => ~RanksBefore(EmailWith(aiCall.data, narrated[j]),
                                  EmailWith(aiCall.data, narrated[i]))

\* C13 as stated: under every summary length the narrated emails appear
\* sorted by importance first and then by recency, whatever the order in
\* which the emails were supplied
C13_NarratedSortedAlways ==
    EmailSummaryMade => NarratedInRankOrder

\* C13, amended: under concise, medium and detailed the narrated emails
\* appear sorted by importance first and then by recency, whatever the order
\* in which they were supplied; under everything they appear in the order
\* in which they were supplied
C13_NarratedSortedUnlessEverything ==
    EmailSummaryMade =>
        IF aiCall.settings.summaryLength # "everything"
        THEN NarratedInRankOrder
        ELSE NarratedSubjects(aiCall.out) = [k \in DOMAIN aiCall.data |-> aiCall.data[k].subject]

\* emails supplied oldest first have been narrated newest first under
\* medium
C13_Witness ==
    /\ EmailSummaryMade
    /\ aiCall.settings.summaryLength = "medium"
    /\ Len(aiCall.data) = 4
    /\ \A k \in 1..4 : ~aiCall.data[k].isImportant
    /\ \A k \in 1..3 : aiCall.data[k].timestamp < aiCall.data[k + 1].timestamp
    /\ NarratedSubjects(aiCall.out) = [i \in 1..4 |-> aiCall.data[5 - i].subject]

\* the text out begins with the pieces of head
BeginsWith(out, head) == Len(out) >= Len(head) /\ SubSeq(out, 1, Len(head)) = head

\* how many of the emails satisfy the condition
CountOf(emails, Cond(_)) == Cardinality({k \in DOMAIN emails : Cond(emails[k])})

\* the opening sentence with the three counts
OpeningWithThreeCounts(total, unread, important) ==
    <<"You have ">> \o NumToStr(total) \o <<" emails in your inbox, ">>
    \o NumToStr(unread) \o <<" unread", ", with ">> \o NumToStr(important)
    \o <<" marked as important", ". Would you like to hear about them?\n\n">>

\* the opening sentence without the count of important emails
OpeningWithTwoCounts(total, unread) ==
    <<"You have ">> \o NumToStr(total) \o <<" emails in your inbox, ">>
    \o NumToStr(unread) \o <<" unread", ". Would you like to hear about them?\n\n">>

\* C14 as stated: for every email list the opening sentence reports the
\* total, the number of unread emails and the number of important emails,
\* each counted over the whole list
C14_OpeningThreeCounts ==
    EmailSummaryMade =>
        BeginsWith(aiCall.out,
                   OpeningWithThreeCounts(Len(aiCall.data),
                                          CountOf(aiCall.data, LAMBDA e : ~e.isRead),
                                          CountOf(aiCall.data, LAMBDA e : e.isImportant)))

\* C14, amended: the opening sentence reports the total and the number of
\* unread emails, and the number of important emails if and only if there
\* is at least one, each counted over the whole list; for 5 emails with 2
\* unread and 1 important it is "You have 5 emails in your inbox, 2 unread,
\* with 1 marked as important."
C14_OpeningCounts ==
    EmailSummaryMade =>
        \E total \in {Len(aiCall.data)} :
        \E unread \in {CountOf(aiCall.data, LAMBDA e : ~e.isRead)} :
        \E important \in {CountOf(aiCall.data, LAMBDA e : e.isImportant)} :
            /\ BeginsWith(aiCall.out,
                          IF important > 0
                          THEN OpeningWithThreeCounts(total, unread, important)
                          ELSE OpeningWithTwoCounts(total, unread))
            /\ total = 5 /\ unread = 2 /\ important = 1 =>
                  BeginsWith(aiCall.out,
                             <<"You have ", "5", " emails in your inbox, ", "2", " unread",
                               ", with ", "1", " marked as important", ". Would you like to hear about them?\n\n">>)

\* 5 emails, 2 unread and 1 important, have been summarized under concise,
\* which narrates 3 of them
C14_Witness ==
    /\ EmailSummaryMade
    /\ Len(aiCall.data) = 5
    /\ CountOf(aiCall.data, LAMBDA e : ~e.isRead) = 2
    /\ CountOf(aiCall.data, LAMBDA e : e.isImportant) = 1
    /\ aiCall.settings.summaryLength = "concise"
    /\ Len(NarratedSubjects(aiCall.out)) = 3
    /\ BeginsWith(aiCall.out, OpeningWithThreeCounts(5, 2, 1))

CalendarSummaryMade == aiCall.fn = "summarizeWithAI" /\ aiCall.type = "calendar"

\* how often the piece mark occurs in the text out
Occurrences(out, mark) == Cardinality({k \in DOMAIN out : out[k] = mark})

\* the supplied events that start d days after the day of the call
EventsOfDay(d) ==
    {k \in DOMAIN aiCall.data : DayOf(aiCall.data[k].start) = DayOf(aiCall.at) + d}

\* C15: a calendar summary holds exactly one of the count sentence of today
\* and the no-events sentence: the no-events sentence iff no supplied event
\* starts today, and otherwise the count sentence with the number of events
\* starting today, "event" in the singular iff that number is 1
C15_TodaySentenceExactlyOne ==
    CalendarSummaryMade =>
        \E N \in {Cardinality(EventsOfDay(0))} :
            /\ Occurrences(aiCall.out, " scheduled for today.\n\n")
               + Occurrences(aiCall.out, "You have no events scheduled for today.\n\n") = 1
            /\ IF N = 0
               THEN BeginsWith(aiCall.out, <<"You have no events scheduled for today.\n\n">>)
               ELSE BeginsWith(aiCall.out,
                               <<"You have ">> \o NumToStr(N)
                               \o <<" event", IF N = 1 THEN "" ELSE "s",
                                    " scheduled for today.\n\n">>)

\* a calendar with one event today and one tomorrow has been summarized
C15_Witness ==
    /\ CalendarSummaryMade
    /\ Cardinality(EventsOfDay(0)) = 1
    /\ Cardinality(EventsOfDay(1)) = 1
    /\ BeginsWith(aiCall.out, <<"You have ", "1", " event", "", " scheduled for today.\n\n">>)

\* the title on the event line that begins at position k of the text out
TitleOfLine(out, k) ==
    out[(CHOOSE j \in k..Len(out) : out[j] = ": " /\ \A i \in k..(j - 1) : out[i] # ": ") + 1]

\* the titles of the supplied events that start d days after the day of the call
TitlesOfDay(d) == {aiCall.data[k].title : k \in EventsOfDay(d)}

\* C16 as stated: the events of tomorrow are mentioned only when the summary
\* length is not concise, so that under concise no event starting tomorrow is
\* named anywhere in the summary
C16_TomorrowUnmentionedUnderConcise ==
    CalendarSummaryMade /\ aiCall.settings.summaryLength = "concise" =>
        /\ Occurrences(aiCall.out, "For tomorrow, you have ") = 0
        /\ \A title \in TitlesOfDay(1) : Occurrences(aiCall.out, title) = 0

\* C16, amended: the section of tomorrow depends on the summary length: under
\* concise the summary has neither the count sentence of tomorrow nor a line
\* of that section, under medium only the count sentence, under detailed and
\* everything the count sentence and one line per event of tomorrow; every
\* other event line is a line of today
C16_TomorrowSectionByLength ==
    CalendarSummaryMade =>
        \E heads \in {PositionsOf(aiCall.out, "For tomorrow, you have ")},
           lines \in {PositionsOf(aiCall.out, ". At ")},
           N \in {Cardinality(EventsOfDay(1))} :
            \E after \in {{i \in DOMAIN lines : Len(heads) > 0 /\ lines[i] > heads[1]}} :
                /\ Len(heads) = IF aiCall.settings.summaryLength # "concise" /\ N > 0
                                THEN 1 ELSE 0
                /\ Len(heads) = 1 =>
                       BeginsWith(SubSeq(aiCall.out, heads[1] + 1, Len(aiCall.out)),
                                  NumToStr(N) \o <<" event", IF N = 1 THEN "" ELSE "s",
                                                   " scheduled.\n\n">>)
                /\ Cardinality(after) =
                       IF aiCall.settings.summaryLength \in {"detailed", "everything"}
                       THEN N ELSE 0
                /\ {TitleOfLine(aiCall.out, lines[i]) : i \in after} =
                       IF aiCall.settings.summaryLength \in {"detailed", "everything"}
                       THEN TitlesOfDay(1) ELSE {}
                /\ Len(lines) - Cardinality(after) = Cardinality(EventsOfDay(0))

\* a calendar with two events tomorrow has been summarized at medium length
C16_Witness ==
    /\ CalendarSummaryMade
    /\ \E title \in TitlesOfDay(1) : Occurrences(aiCall.out, title) > 0
    /\ aiCall.settings.summaryLength = "medium"
    /\ Cardinality(EventsOfDay(1)) = 2
    /\ Len(PositionsOf(aiCall.out, "For tomorrow, you have ")) = 1

\* the pairs of titles on the conflict lines, in the order of the summary
ListedPairs(out) ==
    Bind(PositionsOf(out, ". \""), LAMBDA at :
        [i \in DOMAIN at |-> <<out[at[i] + 1], out[at[i] + 3]>>])

\* two of the supplied events, among those numbered in scope, intersect
SomePairOverlaps(scope) ==
    \E i, j \in scope :
        /\ i # j
        /\ aiCall.data[i].start < aiCall.data[j].end
        /\ aiCall.data[j].start < aiCall.data[i].end

ConflictHeader == "Attention: I found the following schedule conflicts:\n"

ListedPriorities(out) ==
    Bind(PositionsOf(out, ". "), LAMBDA at : [i \in DOMAIN at |-> out[at[i] + 1]])

\* the titles of the supplied events of high importance that start before
\* the midnight that ends the day of the call
HighBeforeTomorrow ==
    {aiCall.data[k].title :
        k \in {j \in DOMAIN aiCall.data :
                  /\ aiCall.data[j].importance = "high"
                  /\ DayOf(aiCall.data[j].start) <= DayOf(aiCall.at)}}

\* C18: the section of the top priorities appears iff the summary length is
\* not concise and some event of high importance starts before tomorrow's
\* midnight, and when it appears it lists exactly those events, at least one
C18_TopPrioritiesListed ==
    CalendarSummaryMade =>
        \E listed \in {ListedPriorities(aiCall.out)} :
            /\ Occurrences(aiCall.out, "Top priorities for today:\n") > 0
                   <=> /\ aiCall.settings.summaryLength # "concise"
                       /\ HighBeforeTomorrow # {}
            /\ {listed[i] : i \in DOMAIN listed} =
                   IF aiCall.settings.summaryLength # "concise"
                   THEN HighBeforeTomorrow ELSE {}
            /\ Occurrences(aiCall.out, "Top priorities for today:\n") > 0 => Len(listed) >= 1

(* Claims about the handlers and the parser *)

\* what an entity contributes to the confirmation: nothing if it is empty,
\* and otherwise its words between lead and trail, which ends in one space
Fragment(lead, entity, trail) ==
    IF entity = <<>> THEN <<>> ELSE <<lead>> \o entity \o <<trail>>

ScheduleAnswered == Settled /\ parsedCommand.type = "SCHEDULE"

\* C19: the answer to a SCHEDULE command resolves to a message made of the
\* opening words, then the fragments of what, when, withWhom and where in
\* that order, each present iff the entity is not empty and each ended by a
\* single space, then the fixed confirmation question; with all four
\* entities empty the answer is still a resolved message
C19_ScheduleMessage ==
    ScheduleAnswered =>
        /\ result.status = "resolved"
        /\ result.value.message =
               <<"I'm scheduling ">>
               \o Fragment("\"", parsedCommand.payload.what, "\" ")
               \o Fragment("for ", parsedCommand.payload.when, " ")
               \o Fragment("with ", parsedCommand.payload.withWhom, " ")
               \o Fragment("at ", parsedCommand.payload.where, " ")
               \o <<". Is that correct?">>

\* a SCHEDULE command with its four entities said has been answered
C19_Witness ==
    /\ ScheduleAnswered
    /\ parsedCommand.payload.what # <<>>
    /\ parsedCommand.payload.when # <<>>
    /\ parsedCommand.payload.withWhom # <<>>
    /\ parsedCommand.payload.where # <<>>
    /\ parsedCommand.payload.what # parsedCommand.payload.when
    /\ result.status = "resolved"

\* C20: the intent parseCommand returns is one of the ten members of
\* COMMAND_TYPES, and for an utterance that satisfies the trigger of none of
\* the rules 1 to 9, the empty utterance among them, parseCommand returns the
\* intent UNKNOWN and no other field
C20_IntentClosedUnknownBare ==
    Parsed =>
        /\ parsedCommand.type \in
               {"READ_EMAILS", "READ_AGENDA", "IGNORE", "RESPOND", "RESPOND_LATER",
                "SET_IMPORTANT", "CALENDAR_RESPONSE", "SCHEDULE", "REPRIORITIZE", "UNKNOWN"}
        /\ (\E cmd \in {Lowered} : \A r \in 1..9 : ~Trigger(r, cmd)) =>
               /\ parsedCommand.type = "UNKNOWN"
               /\ DOMAIN parsedCommand = {"type"}
        /\ command = <<>> => parsedCommand.type = "UNKNOWN" /\ DOMAIN parsedCommand = {"type"}

\* the empty utterance has been parsed
C20_Witness ==
    /\ Parsed
    /\ command = <<>>
    /\ parsedCommand.type = "UNKNOWN"

(* Claims about the utilities *)

DurationMade == aiCall.fn = "calculateDuration"

\* the whole minutes nearest to ms milliseconds, half a minute counting as one
NearestMinutes(ms) ==
    CHOOSE n \in 0..(MaxMinutes + 2) :
        n * MsPerMinute - 30000 <= ms /\ ms < n * MsPerMinute + 30000

\* a number and its unit, the unit in the plural unless the number is 1
Counted(n, unit) == NumToStr(n) \o <<unit, IF n = 1 THEN "" ELSE "s">>

\* C21: for end >= start, with N the duration in minutes (to the nearest
\* minute), calculateDuration returns "N minutes" when N < 60, "0 minutes"
\* for an interval of length zero, and otherwise the hours, followed by
\* " and " and the minutes only when the remaining minutes are not zero,
\* each unit in the singular for 1 and in the plural otherwise
C21_DurationWording ==
    DurationMade /\ aiCall.end >= aiCall.start =>
        \E N \in {NearestMinutes(aiCall.end - aiCall.start)} :
            /\ aiCall.out.status = "returned"
            /\ aiCall.out.value =
                   IF N < 60 THEN NumToStr(N) \o <<" minutes">>
                   ELSE Counted(N \div 60, " hour")
                        \o (IF N % 60 = 0 THEN <<>>
                            ELSE <<" and ">> \o Counted(N % 60, " minute"))
            /\ aiCall.end = aiCall.start => aiCall.out.value = <<"0", " minutes">>

\* the duration of an interval of 61 minutes has been calculated
C21_Witness ==
    /\ DurationMade
    /\ aiCall.end - aiCall.start = 61 * MsPerMinute
    /\ aiCall.out = Returned(<<"1", " hour", "", " and ", "1", " minute", "">>)

\* C22: a call of calculateDuration with end < start is reported as an
\* error and returns no duration, and a calendar summary narrates no
\* duration for an event whose end precedes its start
C22_NegativeDurationRejected ==
    /\ DurationMade /\ aiCall.end < aiCall.start => aiCall.out.status # "returned"
    /\ aiCall.fn = "generateCalendarSummary" /\ aiCall.events[1].end < aiCall.events[1].start =>
           \/ aiCall.out.status # "returned"
           \/ Occurrences(aiCall.out.value, ", for ") = 0

TimeFormatted == aiCall.fn = "formatTime"

\* C23: for hour h of 0..23 and minute m of 0..59, formatTime returns the
\* hour of the 12-hour clock (12 when h mod 12 = 0, else h mod 12) without a
\* leading zero, a colon, the minute in two digits, and "am" for h < 12,
\* "pm" for h >= 12
C23_TwelveHourClock ==
    TimeFormatted =>
        \E h \in {aiCall.h}, m \in {aiCall.m} :
            /\ aiCall.out.status = "returned"
            /\ aiCall.out.value =
                   NumToStr(IF h % 12 = 0 THEN 12 ELSE h % 12)
                   \o <<":", Digit(m \div 10), Digit(m % 10), IF h < 12 THEN "am" ELSE "pm">>
            /\ aiCall.out.value[1] # "0"
            /\ h = 0 => SubSeq(aiCall.out.value, 1, 2) = <<"1", "2">>
            /\ m = 5 => SubSeq(aiCall.out.value, Len(aiCall.out.value) - 2,
                               Len(aiCall.out.value) - 1) = <<"0", "5">>
            /\ h = 13 => aiCall.out.value[1] = "1" /\ aiCall.out.value[2] = ":"
                         /\ aiCall.out.value[Len(aiCall.out.value)] = "pm"

\* five past midnight has been formatted
C23_Witness ==
    /\ TimeFormatted
    /\ aiCall.h = 0
    /\ aiCall.m = 5
    /\ aiCall.out = Returned(<<"1", "2", ":", "0", "5", "am">>)

ConflictsFound == aiCall.fn = "findScheduleConflicts"

\* the positions in the input of the two events of each reported pair; the
\* id of an event is its position
ReportedPositions ==
    [k \in DOMAIN aiCall.out |-> <<aiCall.out[k].event1.id, aiCall.out[k].event2.id>>]

\* the events at positions i and j intersect
Intersecting(i, j) ==
    /\ aiCall.events[i].start < aiCall.events[j].end
    /\ aiCall.events[j].start < aiCall.events[i].end

\* of every two events one ends no later than the other starts
PairwiseDisjoint ==
    \A i, j \in DOMAIN aiCall.events :
        i # j => \/ aiCall.events[i].end <= aiCall.events[j].start
                 \/ aiCall.events[j].end <= aiCall.events[i].start

\* the sequence a backwards
Reversed(a) == [k \in DOMAIN a |-> a[Len(a) + 1 - k]]

\* the pairs of events a list of conflicts holds, each as a set of two ids
UnorderedPairs(conflicts) ==
    {{conflicts[k].event1.id, conflicts[k].event2.id} : k \in DOMAIN conflicts}

ChunksMade == aiCall.fn = "splitTextIntoChunks"

\* C25: every chunk splitTextIntoChunks returns has at most maxLength
\* characters, and none is empty when the text is not empty
C25_ChunksWithinMaxLength ==
    ChunksMade =>
        /\ \A k \in DOMAIN aiCall.out.value : Len(aiCall.out.value[k]) <= aiCall.maxLength
        /\ aiCall.text # <<>> => \A k \in DOMAIN aiCall.out.value : aiCall.out.value[k] # <<>>

\* one call of speak has been made and no other
SingleCall == Len(speakCalls) = 1

\* what holds at every moment of a single call of speak: the utterances
\* handed to the synthesizer are the chunks 0, 1, 2, ... of the call in that
\* order, the synthesizer holds at most one, chunk k + 1 is handed over only
\* when chunk k has ended or failed, and onEnd is called at most once, and
\* only when every chunk has been handed over and has ended or failed
OneChunkAtATime ==
    SingleCall =>
        \E call \in {speakCalls[1]} :
            /\ \A k \in DOMAIN handed : handed[k] = [call |-> 1, index |-> k - 1]
            /\ Len(handed) <= Len(call.textChunks)
            /\ Len(synthQueue) <= 1
            /\ Len(handed) = call.utteranceIndex + Len(synthQueue)
            /\ call.onEndCalls <= 1
            /\ call.onEndCalls = 1 =>
                   /\ Len(handed) = Len(call.textChunks)
                   /\ call.utteranceIndex = Len(call.textChunks)
                   /\ synthQueue = <<>>

\* every chunk of the single call has been handed over and onEnd called once
SpokenToTheEnd ==
    /\ Len(handed) = Len(speakCalls[1].textChunks)
    /\ synthQueue = <<>>
    /\ speakCalls[1].onEndCalls = 1

SecondCallInterrupts == Len(speakCalls) >= 2 /\ speakCalls[2].interrupting

\* the place in handed of the first utterance of call c
FirstHandedOf(c) == Min({k \in DOMAIN handed : handed[k].call = c})

\* C27: once speak(B) has been called while speak(A) is in progress, no
\* further chunk of A is handed to the synthesizer and A's onEnd is never
\* called: the utterances handed over from B's first on are B's chunks in
\* their order, whatever event the cancellation fires
C27_NewCallSilencesOld ==
    Len(speakCalls) = 2 /\ SecondCallInterrupts =>
        /\ \A k \in DOMAIN handed :
               k >= FirstHandedOf(2) => handed[k] = [call |-> 2, index |-> k - FirstHandedOf(2)]
        /\ speakCalls[1].onEndCalls = 0

----------------------------------------------------------------------------
(* Claims about authService *)

\* isAuthenticated has found an expired access token and called refreshToken
CheckedExpired ==
    /\ authCheck.status = "returned"
    /\ authCheck.tokens.present
    /\ IsExpired(authCheck.tokens, authCheck.at)

\* C28: handling a 401 answer takes a bounded number of refresh attempts:
\* the chain of one original request sends at most one refresh request,
\* also when the server answers 401 to the refresh request itself
C28_OneRefreshPerRequest ==
    ~CheckedExpired => refreshCount <= 1

\* C29: isAuthenticated returns false when no tokens are stored, and when
\* the stored access token is expired and the refresh has failed it has
\* returned false and logout has removed the stored tokens and user
C29_FalseWithoutUsableTokens ==
    authCheck.status = "returned" =>
        /\ ~authCheck.tokens.present => ~authCheck.value
        /\ CheckedExpired /\ settled.status = "rejected" =>
               /\ ~authCheck.value
               /\ ~storage.tokens.present
               /\ ~storage.user

----------------------------------------------------------------------------
(* Claims about the settings panel *)

\* the fields of the settings other than the priority contacts
OtherFields == DOMAIN AppSettings \ {"priorityContacts"}

\* the contacts of the settings, as a set
Contacts(settings_) ==
    {settings_.priorityContacts[k] : k \in DOMAIN settings_.priorityContacts}

\* no contact occurs twice in the list
DuplicateFree(a) == \A j, k \in DOMAIN a : a[j] = a[k] => j = k

\* the sequence a without its element at position k
Without(a, k) == SubSeq(a, 1, k - 1) \o SubSeq(a, k + 1, Len(a))

\* C30: whatever was added and removed, the priority contacts hold no
\* duplicate and no empty string; adding an empty contact or one already
\* present leaves the settings unchanged, removing a contact takes exactly
\* that contact from the list, and both leave every other field alone
C30_ContactsDuplicateFree ==
    /\ DuplicateFree(settings.priorityContacts)
    /\ "" \notin Contacts(settings)
    /\ panelOp.op = "add" /\ panelOp.contact \in Contacts(panelOp.before) \cup {""} =>
           settings = panelOp.before
    /\ panelOp.op = "remove" =>
           \E k \in DOMAIN panelOp.before.priorityContacts :
               /\ panelOp.before.priorityContacts[k] = panelOp.contact
               /\ settings.priorityContacts = Without(panelOp.before.priorityContacts, k)
    /\ panelOp.op \in {"add", "remove"} =>
           \A f \in OtherFields : settings[f] = panelOp.before[f]

\* the second of three contacts has been removed from edited settings
C30_Witness ==
    /\ panelOp.op = "remove"
    /\ Len(panelOp.before.priorityContacts) = 3
    /\ panelOp.contact = panelOp.before.priorityContacts[2]
    /\ Len(settings.priorityContacts) = 2
    /\ settings.speechRate = 2
    /\ settings.summaryLength = "concise"

====
